---- MODULE Spec2Model ----
(***************************************************************************)
(* StructuraXR: the structure validity agent (support-graph validator and  *)
(* auto-fixer), the FEA simulation engine and the application glue that    *)
(* registers blocks with the engine.                                       *)
(*                                                                         *)
(* Lengths are integers in centimetres (1 m = 100).  Block sizes are even  *)
(* so that size / 2 is exact.                                              *)
(***************************************************************************)
EXTENDS Integers, Sequences, FiniteSets, TLC

\* ------------------------------------------------------------------ bounds
MaxBlocks == 3      \* longest block list handed to the validity agent
MaxFixes == 2       \* fixFloatingBlocks calls in one behaviour
MaxMeshes == 2      \* meshes created by the structure manager in one behaviour
MaxVectors == 1     \* force vectors created in one behaviour
MaxTurns == 2       \* direction key presses in one behaviour
MaxMoves == 1       \* A and X key presses in one behaviour

\* --------------------------------------------------------- input domains
XSet == {0, 90, 180}
CubeYSet == {2, 50, 500}   \* centre heights of the cubes
SlabYSet == {2, 50, 97}    \* centre heights of the slabs
ZSet == {0}
CubeHSet == {100}
SlabHSet == {4}            \* thinner than the tolerance
WSet == {100}
TypeSet == {"cube"}

Block ==
    [type : TypeSet, pos : XSet \X CubeYSet \X ZSet, size : WSet \X CubeHSet \X WSet]
    \cup [type : TypeSet, pos : XSet \X SlabYSet \X ZSet, size : WSet \X SlabHSet \X WSet]

BlockLists == UNION {[1..n -> Block] : n \in 0..MaxBlocks}

None == [none |-> TRUE]      \* null for records

Abs(v) == IF v < 0 THEN -v ELSE v

Max(a, b) == IF a > b THEN a ELSE b

Min(a, b) == IF a < b THEN a ELSE b

\* ------------------------------------------------ StructureValidityAgent
Eps == 10   \* 0.1 m, the adjacency tolerance of hasSupport

checkOverlap(min1, max1, min2, max2) == ~(max1 < min2 \/ max2 < min1)

\* footprint overlap of two blocks on the X and Z axes
FootprintOverlap(b, o) ==
    /\ checkOverlap(b.pos[1] - b.size[1] \div 2, b.pos[1] + b.size[1] \div 2,
                    o.pos[1] - o.size[1] \div 2, o.pos[1] + o.size[1] \div 2)
    /\ checkOverlap(b.pos[3] - b.size[3] \div 2, b.pos[3] + b.size[3] \div 2,
                    o.pos[3] - o.size[3] \div 2, o.pos[3] + o.size[3] \div 2)

\* other rests directly under block: top face within Eps of block's bottom
SupportedBy(block, other) ==
    /\ Abs((block.pos[2] - block.size[2] \div 2) - (other.pos[2] + other.size[2] \div 2)) < Eps
    /\ FootprintOverlap(block, other)

onGround(block) == Abs(block.pos[2] - block.size[2] \div 2) < Eps

\* currentIndex is the 0-based index of block in allBlocks, or -1
hasSupport(block, allBlocks, currentIndex) ==
    \/ onGround(block)
    \/ \E i \in 0..(Len(allBlocks) - 1) :
          /\ i # currentIndex
          /\ SupportedBy(block, allBlocks[i + 1])

\* issues: the 0-based indices named by the issue strings, in order;
\* the issue for an empty structure is recorded as -1
RECURSIVE FloatingFrom(_, _)
FloatingFrom(blocks, i) ==
    IF i >= Len(blocks) THEN <<>>
    ELSE (IF hasSupport(blocks[i + 1], blocks, i) THEN <<>> ELSE <<i>>)
         \o FloatingFrom(blocks, i + 1)

NoBlocksIssue == -1

\* variant: an empty structure is reported vacuously valid
validateStructure_VacuouslyValid(blocks) ==
    LET issues == FloatingFrom(blocks, 0)
    IN  [valid |-> Len(issues) = 0, issues |-> issues]

validateStructure(blocks) ==
    IF Len(blocks) = 0
    THEN [valid |-> FALSE, issues |-> <<NoBlocksIssue>>]
    ELSE LET issues == FloatingFrom(blocks, 0)
         IN  [valid |-> Len(issues) = 0, issues |-> issues]

\* variant: the ground is taken as the support surface whatever lies below
findSupportSurface_Ground(block, placedBlocks) == 0

findSupportSurface(block, placedBlocks) ==
    LET tops == {placedBlocks[k].pos[2] + placedBlocks[k].size[2] \div 2 :
                    k \in {j \in 1..Len(placedBlocks) : FootprintOverlap(block, placedBlocks[j])}}
    IN  IF tops = {} THEN 0
        ELSE Max(0, CHOOSE t \in tops : \A u \in tops : u <= t)

\* Array.prototype.sort with (a, b) => a.y - b.y is stable
SortRank(blocks, i) ==
    Cardinality({j \in 0..(Len(blocks) - 1) :
        \/ blocks[j + 1].pos[2] < blocks[i + 1].pos[2]
        \/ (blocks[j + 1].pos[2] = blocks[i + 1].pos[2] /\ j < i)})

sortedIndices(blocks) ==
    [k \in 1..Len(blocks) |->
        CHOOSE i \in 0..(Len(blocks) - 1) : SortRank(blocks, i) = k - 1]

\* variant: the block's centre, not its bottom face, is put on the support surface
FixOne_NoHalfHeight(block, fixedBlocks) ==
    IF ~hasSupport(block, fixedBlocks, -1)
    THEN [block EXCEPT !.pos[2] = findSupportSurface(block, fixedBlocks)]
    ELSE block

FixOne_SnapsToOrigin(block, fixedBlocks) ==
    IF ~hasSupport(block, fixedBlocks, -1)
    THEN [block EXCEPT !.pos = <<0, findSupportSurface(block, fixedBlocks) + block.size[2] \div 2, 0>>]
    ELSE block

FixOne(block, fixedBlocks) ==
    IF ~hasSupport(block, fixedBlocks, -1)
    THEN [block EXCEPT !.pos[2] = findSupportSurface(block, fixedBlocks) + block.size[2] \div 2]
    ELSE block

RECURSIVE FixLoop(_, _, _, _)
FixLoop(blocks, order, k, fixedBlocks) ==
    IF k > Len(order) THEN fixedBlocks
    ELSE FixLoop(blocks, order, k + 1,
                 Append(fixedBlocks, FixOne(blocks[order[k] + 1], fixedBlocks)))

fixFloatingBlocks(blocks) == FixLoop(blocks, sortedIndices(blocks), 1, <<>>)

\* ------------------------------------------------------- MaterialSystem
\* strengths in MPa, density in kg/m^3, youngsModulus in GPa
MaterialType == {"steel", "concrete", "wood", "aluminum"}

BoundaryCondition == {"fixed", "pinned", "free"}

ForceType == {"compression", "tension", "shear", "bending"}

MaterialLibrary ==
    [t \in MaterialType |->
        CASE t = "steel"    -> [type |-> t, density |-> 7850, maxCompression |-> 400,
                                maxTension |-> 400, maxShear |-> 250, youngsModulus |-> 200]
          [] t = "concrete" -> [type |-> t, density |-> 2400, maxCompression |-> 30,
                                maxTension |-> 3, maxShear |-> 5, youngsModulus |-> 30]
          [] t = "wood"     -> [type |-> t, density |-> 600, maxCompression |-> 30,
                                maxTension |-> 60, maxShear |-> 10, youngsModulus |-> 11]
          [] t = "aluminum" -> [type |-> t, density |-> 2700, maxCompression |-> 300,
                                maxTension |-> 300, maxShear |-> 200, youngsModulus |-> 69]]

getMaterial(t) == MaterialLibrary[t]

\* fixed-point units of the engine arithmetic
UnitScale == 1000       \* mesh scale 1.0 (scales are in thousandths)
One == 1000000          \* stress ratio 1.0 (stress ratios are in millionths)

\* world-space bounding box of a mesh (Box3.setFromObject), in cm;
\* a cylinder is built with radius size.x
BoxSize(mesh) ==
    LET g == IF mesh.type = "cube" THEN mesh.size
             ELSE <<2 * mesh.size[1], mesh.size[2], 2 * mesh.size[1]>>
    IN  [k \in 1..3 |-> (g[k] * mesh.scale) \div UnitScale]

\* new SimulationBlock(mesh, materialType, boundary);
\* volume in litres (0.001 m^3), mass in kg
SimulationBlock(mesh, materialType, boundary) ==
    LET material == getMaterial(materialType)
        size == BoxSize(mesh)
        volume == (size[1] * size[2] * size[3]) \div 1000
        mass == (material.density * volume) \div 1000
    IN  [material |-> material, boundaryCondition |-> boundary,
         mass |-> mass, volume |-> volume, stress |-> 0, failed |-> FALSE,
         originalPosition |-> mesh.position, originalScale |-> mesh.scale,
         deformationFactor |-> UnitScale]

StressLimit(block, forceType) ==
    CASE forceType = "compression" -> block.material.maxCompression
      [] forceType = "tension"     -> block.material.maxTension
      [] forceType = "shear"       -> block.material.maxShear
      [] forceType = "bending"     -> Min(block.material.maxTension, block.material.maxCompression)

\* variant: the stress of a run is added to the stress left by the previous one
calculateStress_Accumulating(block, appliedForce, forceType) ==
    LET stress == block.stress + (Abs(appliedForce) * 100) \div StressLimit(block, forceType)
    IN  [block EXCEPT !.stress = stress,
                      !.failed = IF stress >= One THEN TRUE ELSE @]

\* appliedForce in units of 100 N, so stress = appliedForce * 100 / (limit in MPa) millionths
calculateStress(block, appliedForce, forceType) ==
    LET stress == (Abs(appliedForce) * 100) \div StressLimit(block, forceType)
    IN  [block EXCEPT !.stress = stress,
                      !.failed = IF stress >= One THEN TRUE ELSE @]

\* deformationFactor = 1.0 + stress * 0.1 * scaleFactor, in thousandths
DeformationFactor(stress, scaleFactor) == UnitScale + ((stress \div 100) * scaleFactor) \div 100

\* variant: the factor multiplies the current scale of the mesh
applyDeformation_Compounding(block, mesh, scaleFactor) ==
    IF block.boundaryCondition = "fixed" THEN <<block, mesh>>
    ELSE LET f == DeformationFactor(block.stress, scaleFactor)
         IN  <<[block EXCEPT !.deformationFactor = f],
               [mesh EXCEPT !.scale = (mesh.scale * f) \div UnitScale]>>

\* variant: the boundary condition is not consulted
applyDeformation_IgnoresBoundary(block, mesh, scaleFactor) ==
    LET f == DeformationFactor(block.stress, scaleFactor)
    IN  <<[block EXCEPT !.deformationFactor = f],
          [mesh EXCEPT !.scale = (block.originalScale * f) \div UnitScale]>>

\* applyDeformation: the pair <<block, mesh>> after the call
applyDeformation(block, mesh, scaleFactor) ==
    IF block.boundaryCondition = "fixed" THEN <<block, mesh>>
    ELSE LET f == DeformationFactor(block.stress, scaleFactor)
         IN  <<[block EXCEPT !.deformationFactor = f],
               [mesh EXCEPT !.scale = (block.originalScale * f) \div UnitScale]>>

\* variant: only the position is restored
resetDeformation_KeepScale(block, mesh) ==
    <<[block EXCEPT !.deformationFactor = UnitScale],
      [mesh EXCEPT !.position = block.originalPosition]>>

resetDeformation(block, mesh) ==
    <<[block EXCEPT !.deformationFactor = UnitScale],
      [mesh EXCEPT !.scale = block.originalScale, !.position = block.originalPosition]>>

\* ------------------------------------------------- FEASimulationEngine
Gravity == 981          \* 9.81 m/s^2, in hundredths

ForceConstant == 100    \* the 1e8 scaling of effectiveForce, in units of 1e6

RECURSIVE SqrtSearch(_, _, _)
SqrtSearch(n, lo, hi) ==
    IF lo >= hi THEN lo
    ELSE LET mid == (lo + hi + 1) \div 2
         IN  IF mid * mid <= n THEN SqrtSearch(n, mid, hi) ELSE SqrtSearch(n, lo, mid - 1)

\* floor of the square root
ISqrt(n) == SqrtSearch(n, 0, 46340)

Dot(a, b) == a[1] * b[1] + a[2] * b[2] + a[3] * b[3]

Sub(a, b) == <<a[1] - b[1], a[2] - b[2], a[3] - b[3]>>

\* squared distance in cm^2
DistSq(a, b) == Dot(Sub(a, b), Sub(a, b))

\* directionToMesh.dot(forceVector.direction) in thousandths; direction components
\* are hundredths; normalize() of the zero vector is the zero vector
Alignment(meshPosition, forceVector) ==
    LET delta == Sub(meshPosition, forceVector.position)
        len10 == ISqrt(100 * Dot(delta, delta))     \* length in mm
        dot == Dot(delta, forceVector.direction)
    IN  IF len10 = 0 THEN 0
        ELSE IF dot < 0 THEN -Min(1000, ((-dot) * 100) \div len10)
        ELSE Min(1000, (dot * 100) \div len10)

\* variant: the force falls as the magnitude grows
EffectiveForce_InverseMagnitude(meshPosition, forceVector) ==
    LET alignment == Alignment(meshPosition, forceVector)
        dsq == Max(10000, DistSq(meshPosition, forceVector.position))
    IN  ((100 \div (forceVector.magnitude + 1)) * Abs(alignment) * ForceConstant * 100)
        \div (dsq \div 100)

\* forceVector.magnitude * |alignment| * distanceFactor * 1e8, in units of 100 N;
\* magnitude is in tenths, distanceFactor = 1 / max(1, distance^2)
EffectiveForce(meshPosition, forceVector) ==
    LET alignment == Alignment(meshPosition, forceVector)
        dsq == Max(10000, DistSq(meshPosition, forceVector.position))
    IN  (forceVector.magnitude * Abs(alignment) * ForceConstant * 100) \div (dsq \div 100)

ClassifyForce(alignment) ==
    IF alignment > 700 THEN "compression"
    ELSE IF alignment < -700 THEN "tension"
    ELSE "shear"

\* gravitational stress (mass * g) / maxCompression in millionths
GravityStress(block) == (block.mass * Gravity) \div (block.material.maxCompression * 100)

\* variant: self-weight is added to fixed blocks too
addGravity_Always(block) == [block EXCEPT !.stress = @ + GravityStress(block)]

addGravity(block) ==
    IF block.boundaryCondition # "fixed"
    THEN [block EXCEPT !.stress = @ + GravityStress(block)]
    ELSE block

\* world-space positions of the vertices followed by applyVonMisesColoring:
\* the corners of a box; the rim points on the axes and the cap centres of a cylinder
Vertices(mesh) ==
    LET hx == (mesh.size[1] * mesh.scale) \div (2 * UnitScale)
        hy == (mesh.size[2] * mesh.scale) \div (2 * UnitScale)
        hz == (mesh.size[3] * mesh.scale) \div (2 * UnitScale)
        r  == (mesh.size[1] * mesh.scale) \div UnitScale
        p  == mesh.position
    IN  IF mesh.type = "cube"
        THEN << <<p[1] - hx, p[2] - hy, p[3] - hz>>, <<p[1] + hx, p[2] - hy, p[3] - hz>>,
                <<p[1] - hx, p[2] + hy, p[3] - hz>>, <<p[1] + hx, p[2] + hy, p[3] - hz>>,
                <<p[1] - hx, p[2] - hy, p[3] + hz>>, <<p[1] + hx, p[2] - hy, p[3] + hz>>,
                <<p[1] - hx, p[2] + hy, p[3] + hz>>, <<p[1] + hx, p[2] + hy, p[3] + hz>> >>
        ELSE << <<p[1], p[2] - hy, p[3]>>, <<p[1], p[2] + hy, p[3]>>,
                <<p[1] - r, p[2] - hy, p[3]>>, <<p[1] + r, p[2] - hy, p[3]>>,
                <<p[1], p[2] - hy, p[3] - r>>, <<p[1], p[2] - hy, p[3] + r>>,
                <<p[1] - r, p[2] + hy, p[3]>>, <<p[1] + r, p[2] + hy, p[3]>>,
                <<p[1], p[2] + hy, p[3] - r>>, <<p[1], p[2] + hy, p[3] + r>> >>

\* localStressMultiplier of calculateVertexStress, in thousandths:
\* max(0.5, min(1.5, 2.0 - distToForce / blockDistToForce)), the block distance
\* counting only above 0.01 (1 cm). The quotient of the distances is the root of
\* the quotient of their squares, and only its values in [0.5, 1.5] matter
LocalStressMultiplier(vertex, mesh, forceVector) ==
    LET distSq == DistSq(vertex, forceVector.position)
        blockDistSq == DistSq(mesh.position, forceVector.position)
    IN  IF blockDistSq <= 1 THEN UnitScale
        ELSE IF 4 * distSq <= blockDistSq THEN (3 * UnitScale) \div 2
        ELSE IF 4 * distSq >= 9 * blockDistSq THEN UnitScale \div 2
        ELSE 2 * UnitScale
             - SqrtSearch(((distSq * UnitScale) \div blockDistSq) * UnitScale,
                          UnitScale \div 2, (3 * UnitScale) \div 2)

\* variant: the result is not capped
calculateVertexStress_Uncapped(vertex, block, mesh, forceVector) ==
    IF forceVector = None THEN block.stress
    ELSE (block.stress \div UnitScale) * LocalStressMultiplier(vertex, mesh, forceVector)

\* calculateVertexStress, in millionths; the cap is 2.0
calculateVertexStress(vertex, block, mesh, forceVector) ==
    IF forceVector = None THEN block.stress
    ELSE Min((block.stress \div UnitScale) * LocalStressMultiplier(vertex, mesh, forceVector),
             2 * One)

\* applyVonMisesColoring: the mesh with the stress behind each vertex colour
applyVonMisesColoring(block, mesh, forceVector) ==
    LET vs == Vertices(mesh)
    IN  [mesh EXCEPT !.vertexStress = [i \in 1..Len(vs) |->
                                          calculateVertexStress(vs[i], block, mesh, forceVector)],
                     !.vertexColors = TRUE,
                     !.emissive = IF block.failed THEN "red" ELSE "black"]

\* one iteration of the forEach of runSimulation: <<block, mesh>> afterwards
SimulateBlock(block, mesh, forceVector, deformationScale) ==
    LET stressed == calculateStress(block, EffectiveForce(mesh.position, forceVector),
                                    ClassifyForce(Alignment(mesh.position, forceVector)))
        loaded == addGravity(stressed)
        deformed == applyDeformation(loaded, mesh, deformationScale)
    IN  <<deformed[1], applyVonMisesColoring(deformed[1], deformed[2], forceVector)>>

\* ------------------------------------------------------------------ state
VARIABLES
    agentInput,     \* the block list first handed to the validity agent
    agentBlocks,    \* the list the caller currently holds
    agentPrev,      \* the list handed to the last fixFloatingBlocks call
    agentReport,    \* result of the last validateStructure call
    agentOp,        \* last agent operation: "none", "validate", "fix"
    agentFixes,     \* number of fixFloatingBlocks calls so far
    meshes,         \* every THREE.Mesh created so far: id -> type, position, size, scale, colouring
    nextMesh,       \* identity of the next mesh object
    scene,          \* ids of the meshes that are children of the scene
    smBlocks,       \* StructureManager.blocks
    nextBlockId,    \* StructureManager.nextBlockId
    feaBlocks,      \* FEASimulationEngine.blocks: mesh id -> SimulationBlock
    deformationScale,   \* FEASimulationEngine.deformationScale
    currentForceVector, \* FEASimulationEngine.currentForceVector
    fvVectors,      \* ForceVectorManager.vectors
    fvNextId,       \* ForceVectorManager.nextId
    activeVector,   \* ForceVectorManager.activeVector
    deskIntersectables, \* DesktopSimulation.intersectables
    deskSelected,   \* DesktopSimulation.selectedObject
    lastRun,        \* value returned by runSimulation when it was the last operation
    lastOp,         \* "run" or "reset" right after that engine operation, "refused" right
                    \* after a stress test that was turned down, else "other"
    regSnapshot,    \* history: scale and position of each mesh when it was registered
    refRun,         \* history: force and stresses of the first run since the registry changed
    isPlacingVector,    \* ForceVectorManager.isPlacingVector
    isWaitingForClick,  \* ForceVectorManager.isWaitingForClick
    tempArrow,      \* ForceVectorManager.tempArrow: None or the arrow's position
    tempDirection,  \* ForceVectorManager.tempDirection, in hundredths
    tempMagnitude,  \* ForceVectorManager.tempMagnitude, in tenths
    keyTurns,       \* direction keys pressed so far
    keyMoves,       \* A and X keys pressed so far
    placementState, \* XRControllerManager.placementState
    vectorPlacementController,  \* NoController or the index of the controller that places the vector
    startPosition,  \* XRControllerManager.startPosition, None or a point in cm
    endPosition,    \* XRControllerManager.endPosition
    currentDepth,   \* XRControllerManager.currentDepth, in cm
    buildModeState, \* XRControllerManager.buildModeState
    currentBlockTypeIndex,  \* XRControllerManager.currentBlockTypeIndex
    selectedBlockType,      \* XRControllerManager.selectedBlockType
    startPointIndicator,    \* None or the position of the green marker
    endPointIndicator,      \* None or the position of the red marker
    xrTempArrow,    \* XRControllerManager.tempArrow: None or the preview arrow
    buttonFlags,    \* controller.userData of each controller: the ...ButtonPressed flags set
    pointed,        \* history: the last position read from the controller's ray
    previewBlock,   \* XRControllerManager.previewBlock: None or the preview mesh, by its type
    isXRActive,     \* XRUIManager.isXRActive: an XR session is running
    canvasCache,    \* VariantPreviewRenderer.canvasCache: variantId -> image
    shownVariants,  \* the variants spawnStructure handed to showVariants last
    request,        \* the last POST /api/generate-variants: its body and the AI's parsed reply
    response        \* the response sent to it: status code and JSON body

agentVars == <<agentInput, agentBlocks, agentPrev, agentReport, agentOp, agentFixes>>

structVars == <<meshes, nextMesh, scene, smBlocks, nextBlockId>>

engineVars == <<feaBlocks, deformationScale, currentForceVector>>

forceVars == <<fvVectors, fvNextId, activeVector>>

deskVars == <<deskIntersectables, deskSelected>>

histVars == <<lastRun, lastOp, regSnapshot, refRun>>

placeVars == <<isPlacingVector, isWaitingForClick, tempArrow, tempDirection, tempMagnitude,
               keyTurns, keyMoves>>

xrVars == <<placementState, vectorPlacementController, startPosition, endPosition, currentDepth, buildModeState,
            currentBlockTypeIndex, selectedBlockType, startPointIndicator, endPointIndicator,
            xrTempArrow, buttonFlags, pointed, previewBlock>>

serverVars == <<request, response>>

previewVars == <<canvasCache, shownVariants>>

inputVars == <<placeVars, xrVars, serverVars, previewVars, isXRActive>>

vars == <<agentVars, structVars, engineVars, forceVars, deskVars, histVars, inputVars>>

NoMesh == 0                   \* null for mesh references

NoController == -1            \* null for controller references

\* --------------------------------------------------------- input domains
Cube(x, y, z, s) == [type |-> "cube", pos |-> <<x, y, z>>, size |-> <<s, s, s>>]

\* build instructions of the variants offered for selection
VariantPool ==
    { <<Cube(0, 50, 0, 100)>>,
      <<Cube(0, 50, 0, 100), Cube(0, 150, 0, 100)>>,
      <<Cube(0, 150, 0, 300)>>,
      <<Cube(0, 50, 0, 100), [type |-> "cylinder", pos |-> <<200, 300, 0>>, size |-> <<30, 80, 30>>]>> }

Force(p, d, m) == [position |-> p, direction |-> d, magnitude |-> m]

\* position in cm, direction in hundredths, magnitude in tenths
ForceSet ==
    { Force(<<0, 200, 0>>, <<0, -100, 0>>, 10),
      Force(<<0, 150, 0>>, <<0, -100, 0>>, 40),
      Force(<<0, 375, 0>>, <<0, -100, 0>>, 15),
      Force(<<60, 130, 0>>, <<0, 100, 0>>, 30) }

\* the vectors drawn with the VR controller
VRForceSet ==
    { Force(<<0, 200, 0>>, <<0, -100, 0>>, 10),
      Force(<<60, 130, 0>>, <<0, 100, 0>>, 30) }

\* magnitudes a force can be given, in tenths
MagnitudeSet == {0, 5, 15, 40, 100}

DeformScaleSet == {1, 5}

NoRun == [totalBlocks |-> 0, failedBlocks |-> 0, maxStress |-> 0, results |-> <<>>]

\* material and boundary assignments made through FEASimulationEngine.addBlock
AssignmentPool ==
    { <<"steel", "fixed">>, <<"concrete", "free">>, <<"wood", "pinned">>, <<"aluminum", "free">> }

NoRef == [set |-> FALSE, force |-> None, stress |-> <<>>, other |-> FALSE, repeated |-> FALSE]

\* ------------------------------------------------------ StructureManager
\* st: [blocks, nextBlockId, meshes, nextMesh, scene]
checkForSupportBelow(st, position, size) ==
    LET checkRadius2 == Max(size[1], size[3])       \* twice the radius
        newBlockBottomY == position[2] - size[2] \div 2
    IN  \E k \in 1..Len(st.blocks) :
          LET block == st.blocks[k]
              mpos == st.meshes[block.mesh].position
              blockTop == mpos[2] + block.size[2] \div 2
              dx == Abs(mpos[1] - position[1])
              dz == Abs(mpos[3] - position[3])
              blockRadius2 == Max(block.size[1], block.size[3])
          IN  /\ blockTop < newBlockBottomY + 10
              /\ blockTop > newBlockBottomY - 10
              /\ 2 * dx < checkRadius2 + blockRadius2
              /\ 2 * dz < checkRadius2 + blockRadius2

validateAndFixPosition(st, requestedPos, size) ==
    LET groundLevel == size[2] \div 2
        wouldFloat == requestedPos[2] > groundLevel + 1
    IN  IF ~wouldFloat THEN requestedPos
        ELSE IF checkForSupportBelow(st, requestedPos, size) THEN requestedPos
        ELSE <<requestedPos[1], groundLevel, requestedPos[3]>>

StructureAddBlock(st, type, position, size) ==
    LET fixedPosition == validateAndFixPosition(st, position, size)
        mesh == [type |-> IF type = "cube" THEN "cube" ELSE "cylinder",
                 position |-> fixedPosition, size |-> size, scale |-> UnitScale,
                 vertexColors |-> FALSE, vertexStress |-> <<>>, emissive |-> "black"]
        block == [mesh |-> st.nextMesh, id |-> st.nextBlockId, type |-> type, size |-> size]
    IN  [blocks |-> Append(st.blocks, block),
         nextBlockId |-> st.nextBlockId + 1,
         meshes |-> st.meshes @@ (st.nextMesh :> mesh),
         nextMesh |-> st.nextMesh + 1,
         scene |-> st.scene \cup {st.nextMesh}]

StructureClear(st) ==
    [st EXCEPT !.scene = @ \ {st.blocks[k].mesh : k \in 1..Len(st.blocks)},
               !.blocks = <<>>,
               !.nextBlockId = 1]

StructureRemoveBlock(st, blockId) ==
    IF \A k \in 1..Len(st.blocks) : st.blocks[k].id # blockId THEN st
    ELSE LET blockIndex == CHOOSE k \in 1..Len(st.blocks) :
                              /\ st.blocks[k].id = blockId
                              /\ \A j \in 1..(k - 1) : st.blocks[j].id # blockId
         IN  [st EXCEPT !.scene = @ \ {st.blocks[blockIndex].mesh},
                        !.blocks = SubSeq(@, 1, blockIndex - 1)
                                   \o SubSeq(@, blockIndex + 1, Len(@))]

StructState == [blocks |-> smBlocks, nextBlockId |-> nextBlockId, meshes |-> meshes,
                nextMesh |-> nextMesh, scene |-> scene]

SetStruct(st) ==
    /\ smBlocks' = st.blocks
    /\ nextBlockId' = st.nextBlockId
    /\ meshes' = st.meshes
    /\ nextMesh' = st.nextMesh
    /\ scene' = st.scene

BlockMeshes(blocks) == {blocks[k].mesh : k \in 1..Len(blocks)}

Snapshot(mesh) == [scale |-> mesh.scale, position |-> mesh.position]

\* ------------------------------------------------- engine operations
\* FEASimulationEngine.addBlock on the engine's block map
EngineRegister(blocks, m, mesh, material, boundary) ==
    [k \in (DOMAIN blocks) \cup {m} |->
        IF k = m THEN SimulationBlock(mesh, material, boundary) ELSE blocks[k]]

\* variant: the force is shared among the registered bodies
runSimulation_SharedLoad(blocks, ms, forceVector, scaleFactor) ==
    LET share == [forceVector EXCEPT
                      !.magnitude = @ \div Max(1, Cardinality(DOMAIN blocks))]
        after == [m \in DOMAIN blocks |-> SimulateBlock(blocks[m], ms[m], share, scaleFactor)]
        newBlocks == [m \in DOMAIN blocks |-> after[m][1]]
        stresses == {newBlocks[m].stress : m \in DOMAIN blocks} \cup {0}
    IN  [blocks |-> newBlocks,
         meshes |-> [m \in DOMAIN ms |-> IF m \in DOMAIN blocks THEN after[m][2] ELSE ms[m]],
         result |-> [totalBlocks |-> Cardinality(DOMAIN blocks),
                     failedBlocks |-> Cardinality({m \in DOMAIN blocks : newBlocks[m].failed}),
                     maxStress |-> CHOOSE t \in stresses : \A u \in stresses : u <= t,
                     results |-> [m \in DOMAIN blocks |->
                                    [stress |-> newBlocks[m].stress, failed |-> newBlocks[m].failed]]]]

\* FEASimulationEngine.runSimulation: the blocks, the meshes and the returned value
runSimulation(blocks, ms, forceVector, scaleFactor) ==
    LET after == [m \in DOMAIN blocks |-> SimulateBlock(blocks[m], ms[m], forceVector, scaleFactor)]
        newBlocks == [m \in DOMAIN blocks |-> after[m][1]]
        stresses == {newBlocks[m].stress : m \in DOMAIN blocks} \cup {0}
    IN  [blocks |-> newBlocks,
         meshes |-> [m \in DOMAIN ms |-> IF m \in DOMAIN blocks THEN after[m][2] ELSE ms[m]],
         result |-> [totalBlocks |-> Cardinality(DOMAIN blocks),
                     failedBlocks |-> Cardinality({m \in DOMAIN blocks : newBlocks[m].failed}),
                     maxStress |-> CHOOSE t \in stresses : \A u \in stresses : u <= t,
                     results |-> [m \in DOMAIN blocks |->
                                    [stress |-> newBlocks[m].stress, failed |-> newBlocks[m].failed]]]]

\* the forEach of runSimulation with the order of the iteration made explicit:
\* order lists the keys of the block map as the Map hands them out, and each
\* iteration works on the blocks and meshes that the iterations before it left
RECURSIVE runSimulationInOrder(_, _, _, _, _)
runSimulationInOrder(blocks, ms, forceVector, scaleFactor, order) ==
    IF order = <<>> THEN [blocks |-> blocks, meshes |-> ms]
    ELSE LET m == Head(order)
             after == SimulateBlock(blocks[m], ms[m], forceVector, scaleFactor)
         IN  runSimulationInOrder([blocks EXCEPT ![m] = after[1]], [ms EXCEPT ![m] = after[2]],
                                  forceVector, scaleFactor, Tail(order))

\* variant: the failed flag survives the reset
resetBlocks_KeepFailed(blocks, ms) ==
    [m \in DOMAIN blocks |->
        [resetDeformation(blocks[m], ms[m])[1] EXCEPT !.stress = 0]]

\* block.resetDeformation(); stress = 0; failed = false, for every block
resetBlocks(blocks, ms) ==
    [m \in DOMAIN blocks |->
        [resetDeformation(blocks[m], ms[m])[1] EXCEPT !.stress = 0, !.failed = FALSE]]

StressOf(result) == [m \in DOMAIN result.results |-> result.results[m].stress]

ForceOf(vector) == Force(vector.position, vector.direction, vector.magnitude)

\* the reference run kept for comparison: the first one since the registry changed;
\* other: a run with another force followed it; repeated: its force was run again after that
Reference(ref, registryChanged, forceVector, result) ==
    IF registryChanged \/ ~ref.set
    THEN [set |-> TRUE, force |-> ForceOf(forceVector), stress |-> StressOf(result),
          other |-> FALSE, repeated |-> FALSE]
    ELSE IF ForceOf(forceVector) # ref.force
         THEN [ref EXCEPT !.other = TRUE]
         ELSE [ref EXCEPT !.repeated = @ \/ ref.other]

\* ------------------------------------------------------------------ init
\* the field initialisers of ForceVectorManager and XRControllerManager
InitInput ==
    /\ isPlacingVector = FALSE
    /\ isWaitingForClick = FALSE
    /\ tempArrow = None
    /\ tempDirection = <<0, -100, 0>>
    /\ tempMagnitude = 15
    /\ keyTurns = 0
    /\ keyMoves = 0
    /\ placementState = "IDLE"
    /\ vectorPlacementController = NoController
    /\ startPosition = None
    /\ endPosition = None
    /\ currentDepth = 200
    /\ buildModeState = "INACTIVE"
    /\ currentBlockTypeIndex = 0
    /\ selectedBlockType = "cube"
    /\ startPointIndicator = None
    /\ endPointIndicator = None
    /\ xrTempArrow = None
    /\ buttonFlags = [c \in {0, 1} |-> {}]
    /\ pointed = None
    /\ previewBlock = None
    /\ isXRActive = FALSE
    /\ canvasCache = [id \in {} |-> <<>>]
    /\ shownVariants = <<>>
    /\ request = None
    /\ response = None

InitApp ==
    /\ InitInput
    /\ meshes = <<>>
    /\ nextMesh = 1
    /\ scene = {}
    /\ smBlocks = <<>>
    /\ nextBlockId = 1
    /\ feaBlocks = <<>>
    /\ deformationScale = 5
    /\ currentForceVector = None
    /\ fvVectors = <<>>
    /\ fvNextId = 1
    /\ activeVector = None
    /\ deskIntersectables = {}
    /\ deskSelected = NoMesh
    /\ lastRun = NoRun
    /\ lastOp = "other"
    /\ regSnapshot = <<>>
    /\ refRun = NoRef

NoReport == [valid |-> FALSE, issues |-> <<>>]

IdleAgent ==
    /\ agentInput = <<>>
    /\ agentBlocks = <<>>
    /\ agentPrev = <<>>
    /\ agentReport = NoReport
    /\ agentOp = "none"
    /\ agentFixes = 0

Init == IdleAgent /\ InitApp

\* --------------------------------------------------------------- actions
\* the variant-selected callback of spawnStructure: clear, rebuild, register
SelectVariant(data) ==
    /\ nextMesh + Len(data) - 1 <= MaxMeshes
    /\ LET RECURSIVE Build(_, _)
           Build(st, k) ==
               IF k > Len(data) THEN st
               ELSE Build(StructureAddBlock(st, data[k].type, data[k].pos, data[k].size), k + 1)
           st == Build(StructureClear(StructState), 1)
           built == BlockMeshes(st.blocks)
       IN  /\ SetStruct(st)
           /\ feaBlocks' = [m \in (DOMAIN feaBlocks) \cup built |->
                               IF m \in built
                               THEN SimulationBlock(st.meshes[m], "steel", "free")
                               ELSE feaBlocks[m]]
           /\ regSnapshot' = [m \in (DOMAIN regSnapshot) \cup built |->
                               IF m \in built THEN Snapshot(st.meshes[m]) ELSE regSnapshot[m]]
           /\ deskIntersectables' = built
    /\ refRun' = NoRef
    /\ lastOp' = "other"
    /\ lastRun' = NoRun
    /\ UNCHANGED <<agentVars, inputVars, deformationScale, currentForceVector, forceVars, deskSelected>>

\* XRControllerManager.handleDeleteBlock when the ray hits the k-th block
VRDeleteBlock(k) ==
    /\ placementState = "IDLE"
    /\ buildModeState # "ACTIVE"
    /\ k \in 1..Len(smBlocks)
    /\ SetStruct(StructureRemoveBlock(StructState, smBlocks[k].id))
    /\ lastOp' = "other"
    /\ lastRun' = NoRun
    /\ UNCHANGED <<agentVars, inputVars, engineVars, forceVars, deskVars, regSnapshot, refRun>>

\* DesktopSimulation.onClick: a hit selects, a miss deselects
DesktopClick(target) ==
    /\ target \in deskIntersectables \cup {NoMesh}
    /\ deskSelected' = target
    /\ lastOp' = "other"
    /\ lastRun' = NoRun
    /\ UNCHANGED <<agentVars, inputVars, structVars, engineVars, forceVars, deskIntersectables,
                   regSnapshot, refRun>>

\* Shift+Delete: DesktopSimulation.deleteSelectedObject
DesktopDelete ==
    /\ deskSelected # NoMesh
    /\ scene' = scene \ {deskSelected}
    /\ deskSelected' = NoMesh
    /\ lastOp' = "other"
    /\ lastRun' = NoRun
    /\ UNCHANGED <<agentVars, inputVars, meshes, nextMesh, smBlocks, nextBlockId, engineVars, forceVars,
                   deskIntersectables, regSnapshot, refRun>>

\* ForceVectorManager.createVectorFromVR
CreateVectorFromVR(f) ==
    /\ fvNextId <= MaxVectors
    /\ LET vector == [id |-> fvNextId, position |-> f.position,
                      direction |-> f.direction, magnitude |-> f.magnitude]
       IN  /\ fvVectors' = Append(fvVectors, vector)
           /\ activeVector' = vector
    /\ fvNextId' = fvNextId + 1
    /\ lastOp' = "other"
    /\ lastRun' = NoRun
    /\ UNCHANGED <<agentVars, inputVars, structVars, engineVars, deskVars, regSnapshot, refRun>>

\* variant: without an active vector the test runs with a default downward force
RunStressTest_DefaultVector ==
    LET vector == IF activeVector = None
                  THEN [id |-> 0, position |-> <<0, 0, 0>>, direction |-> <<0, -100, 0>>,
                        magnitude |-> 15]
                  ELSE activeVector
        unregistered == BlockMeshes(smBlocks) \ DOMAIN feaBlocks
        registered == [m \in (DOMAIN feaBlocks) \cup unregistered |->
                         IF m \in unregistered
                         THEN SimulationBlock(meshes[m], "steel", "free")
                         ELSE feaBlocks[m]]
    IN  \E run \in {runSimulation(registered, meshes, vector, deformationScale)} :
        /\ feaBlocks' = run.blocks
        /\ meshes' = run.meshes
        /\ currentForceVector' = ForceOf(vector)
        /\ lastRun' = run.result
        /\ regSnapshot' = [m \in DOMAIN registered |->
                             IF m \in unregistered THEN Snapshot(meshes[m]) ELSE regSnapshot[m]]
        /\ refRun' = Reference(refRun, unregistered # {}, vector, run.result)
        /\ lastOp' = "run"
        /\ UNCHANGED <<agentVars, inputVars, nextMesh, scene, smBlocks, nextBlockId, deformationScale,
                       forceVars, deskVars>>

\* window.app.runStressTest
RunStressTest ==
    IF activeVector = None
    THEN /\ lastOp' = "refused"
         /\ lastRun' = NoRun
         /\ UNCHANGED <<agentVars, inputVars, structVars, engineVars, forceVars, deskVars,
                        regSnapshot, refRun>>
    ELSE LET unregistered == BlockMeshes(smBlocks) \ DOMAIN feaBlocks
             registered == [m \in (DOMAIN feaBlocks) \cup unregistered |->
                              IF m \in unregistered
                              THEN SimulationBlock(meshes[m], "steel", "free")
                              ELSE feaBlocks[m]]
         IN  \E run \in {runSimulation(registered, meshes, activeVector, deformationScale)} :
             /\ feaBlocks' = run.blocks
             /\ meshes' = run.meshes
             /\ currentForceVector' = ForceOf(activeVector)
             /\ lastRun' = run.result
             /\ regSnapshot' = [m \in DOMAIN registered |->
                                  IF m \in unregistered THEN Snapshot(meshes[m]) ELSE regSnapshot[m]]
             /\ refRun' = Reference(refRun, unregistered # {}, activeVector, run.result)
             /\ lastOp' = "run"
             /\ UNCHANGED <<agentVars, inputVars, nextMesh, scene, smBlocks, nextBlockId, deformationScale,
                            forceVars, deskVars>>

\* FEASimulationEngine.resetSimulation (window.app.resetSimulation)
ResetSimulation ==
    /\ feaBlocks' = resetBlocks(feaBlocks, meshes)
    /\ meshes' = [m \in DOMAIN meshes |->
                    IF m \in DOMAIN feaBlocks
                    THEN [resetDeformation(feaBlocks[m], meshes[m])[2]
                            EXCEPT !.vertexColors = FALSE, !.vertexStress = <<>>,
                                   !.emissive = "black"]
                    ELSE meshes[m]]
    /\ lastOp' = "reset"
    /\ lastRun' = NoRun
    /\ UNCHANGED <<agentVars, inputVars, nextMesh, scene, smBlocks, nextBlockId, deformationScale,
                   currentForceVector, forceVars, deskVars, regSnapshot, refRun>>

\* FEASimulationEngine.clearVectors: block.reset() for every block
EngineClearVectors ==
    /\ currentForceVector' = None
    /\ feaBlocks' = resetBlocks(feaBlocks, meshes)
    /\ meshes' = [m \in DOMAIN meshes |->
                    IF m \in DOMAIN feaBlocks
                    THEN [resetDeformation(feaBlocks[m], meshes[m])[2] EXCEPT !.emissive = "black"]
                    ELSE meshes[m]]

\* window.app.clearVector: ForceVectorManager.clearVectors, then the engine's
ClearVector ==
    /\ fvVectors' = <<>>
    /\ activeVector' = None
    /\ isPlacingVector' = FALSE
    /\ tempArrow' = None
    /\ EngineClearVectors
    /\ lastOp' = "other"
    /\ lastRun' = NoRun
    /\ UNCHANGED <<agentVars, nextMesh, scene, smBlocks, nextBlockId, deformationScale,
                   fvNextId, deskVars, regSnapshot, refRun, xrVars, serverVars, previewVars, isXRActive, isWaitingForClick,
                   tempDirection, tempMagnitude, keyTurns, keyMoves>>

\* FEASimulationEngine.setDeformationScale from the slider
SetDeformationScale(scale) ==
    /\ deformationScale' = scale
    /\ lastOp' = "other"
    /\ lastRun' = NoRun
    /\ UNCHANGED <<agentVars, inputVars, structVars, feaBlocks, currentForceVector, forceVars, deskVars,
                   regSnapshot, refRun>>

Next ==
    \/ \E data \in VariantPool : SelectVariant(data)
    \/ \E k \in 1..MaxMeshes : VRDeleteBlock(k)
    \/ \E target \in 0..MaxMeshes : DesktopClick(target)
    \/ DesktopDelete
    \/ \E f \in VRForceSet : CreateVectorFromVR(f)
    \/ RunStressTest
    \/ ResetSimulation
    \/ ClearVector
    \/ \E scale \in DeformScaleSet : SetDeformationScale(scale)

Spec == Init /\ [][Next]_vars

\* ------------------------------- the engine driven through its public methods
\* FEASimulationEngine.addBlock for a block of the structure that is at rest
AddBlock(m, material, boundary) ==
    /\ m \in BlockMeshes(smBlocks)
    /\ meshes[m].scale = UnitScale
    /\ feaBlocks' = EngineRegister(feaBlocks, m, meshes[m], material, boundary)
    /\ regSnapshot' = [k \in (DOMAIN regSnapshot) \cup {m} |->
                          IF k = m THEN Snapshot(meshes[m]) ELSE regSnapshot[k]]
    /\ refRun' = NoRef
    /\ lastOp' = "other"
    /\ lastRun' = NoRun
    /\ UNCHANGED <<agentVars, inputVars, structVars, deformationScale, currentForceVector, forceVars,
                   deskVars>>

\* FEASimulationEngine.runSimulation(forceVector)
RunSimulation(forceVector) ==
    \E run \in {runSimulation(feaBlocks, meshes, forceVector, deformationScale)} :
        /\ feaBlocks' = run.blocks
        /\ meshes' = run.meshes
        /\ currentForceVector' = forceVector
        /\ lastRun' = run.result
        /\ refRun' = Reference(refRun, FALSE, forceVector, run.result)
        /\ lastOp' = "run"
        /\ UNCHANGED <<agentVars, inputVars, nextMesh, scene, smBlocks, nextBlockId, deformationScale,
                       forceVars, deskVars, regSnapshot>>

ClearEngine ==
    /\ EngineClearVectors
    /\ lastOp' = "other"
    /\ lastRun' = NoRun
    /\ UNCHANGED <<agentVars, inputVars, nextMesh, scene, smBlocks, nextBlockId, deformationScale,
                   forceVars, deskVars, regSnapshot, refRun>>

NextEngine ==
    \/ \E m \in DOMAIN meshes, a \in AssignmentPool : AddBlock(m, a[1], a[2])
    \/ \E f \in ForceSet : RunSimulation(f)
    \/ ResetSimulation
    \/ ClearEngine
    \/ \E scale \in DeformScaleSet : SetDeformationScale(scale)

\* a structure has been generated: the state after one variant was selected
InitEngine ==
    /\ IdleAgent
    /\ InitInput
    /\ \E data \in VariantPool :
          LET RECURSIVE Build(_, _)
              Build(st, k) ==
                  IF k > Len(data) THEN st
                  ELSE Build(StructureAddBlock(st, data[k].type, data[k].pos, data[k].size), k + 1)
              st == Build([blocks |-> <<>>, nextBlockId |-> 1, meshes |-> <<>>,
                           nextMesh |-> 1, scene |-> {}], 1)
              built == BlockMeshes(st.blocks)
          IN  /\ smBlocks = st.blocks
              /\ nextBlockId = st.nextBlockId
              /\ meshes = st.meshes
              /\ nextMesh = st.nextMesh
              /\ scene = st.scene
              /\ feaBlocks = [m \in built |-> SimulationBlock(st.meshes[m], "steel", "free")]
              /\ regSnapshot = [m \in built |-> Snapshot(st.meshes[m])]
              /\ deskIntersectables = built
    /\ deformationScale = 5
    /\ currentForceVector = None
    /\ fvVectors = <<>>
    /\ fvNextId = 1
    /\ activeVector = None
    /\ deskSelected = NoMesh
    /\ lastRun = NoRun
    /\ lastOp = "other"
    /\ refRun = NoRef

SpecEngine == InitEngine /\ [][NextEngine]_vars

\* registrations and runs alone: what one run computes from the registry it finds
NextRun ==
    \/ \E m \in DOMAIN meshes, a \in AssignmentPool : AddBlock(m, a[1], a[2])
    \/ \E f \in ForceSet : RunSimulation(f)

SpecRun == InitEngine /\ [][NextRun]_vars

\* ------------------------------------------ validity agent, driven alone
InitAgent ==
    /\ agentInput \in BlockLists
    /\ agentBlocks = agentInput
    /\ agentPrev = <<>>
    /\ agentReport = NoReport
    /\ agentOp = "none"
    /\ agentFixes = 0
    /\ InitApp

appVars == <<structVars, engineVars, forceVars, deskVars, histVars, inputVars>>

AgentValidate ==
    /\ agentReport' = validateStructure(agentBlocks)
    /\ agentOp' = "validate"
    /\ UNCHANGED <<agentInput, agentBlocks, agentPrev, agentFixes, appVars>>

AgentFix ==
    /\ agentFixes < MaxFixes
    /\ agentPrev' = agentBlocks
    /\ agentBlocks' = fixFloatingBlocks(agentBlocks)
    /\ agentFixes' = agentFixes + 1
    /\ agentOp' = "fix"
    /\ UNCHANGED <<agentInput, agentReport, appVars>>

NextAgent == AgentValidate \/ AgentFix

SpecAgent == InitAgent /\ [][NextAgent]_vars

\* ------------------------- spawnStructure: the variants on their way to the scene
\* the callback spawnStructure maps over the variants: validate, fix if invalid
validateVariant(data) ==
    IF ~validateStructure(data).valid THEN fixFloatingBlocks(data) ELSE data

\* spawnStructure up to showVariants, for one variant received from the backend;
\* agentReport is the result of the last validateStructure call it makes
SpawnStructure ==
    /\ agentOp = "none"
    /\ agentBlocks' = validateVariant(agentBlocks)
    /\ agentReport' = IF validateStructure(agentBlocks).valid
                      THEN validateStructure(agentBlocks)
                      ELSE validateStructure(fixFloatingBlocks(agentBlocks))
    /\ agentOp' = "prepare"
    /\ UNCHANGED <<agentInput, agentPrev, agentFixes, appVars>>

\* the user picks the variant: its build instructions go to the structure manager
BuildVariant ==
    /\ agentOp = "prepare"
    /\ SelectVariant(agentBlocks)

NextSpawn == SpawnStructure \/ BuildVariant

SpecSpawn == InitAgent /\ [][NextSpawn]_vars

\* ---------------------------- spawnStructure: the previews of the variants
MaxVariants == 2    \* most variants in one answer of the backend

VariantsData == UNION {[1..n -> VariantPool] : n \in 1..MaxVariants}

\* VariantPreviewRenderer.getBlockColor: the colours are keyed by material names,
\* every block type gets the default colour
getBlockColor(type) ==
    CASE type = "concrete" -> "9e9e9e"
      [] type = "steel" -> "607d8b"
      [] type = "wood" -> "8d6e63"
      [] type = "glass" -> "81d4fa"
      [] type = "box" -> "aaaaaa"
      [] OTHER -> "cccccc"

\* the image the renderer draws: one box of the instruction's size and colour at
\* the instruction's position, for each instruction
renderScene(buildInstructions) ==
    [k \in DOMAIN buildInstructions |->
        [pos |-> buildInstructions[k].pos, size |-> buildInstructions[k].size,
         color |-> getBlockColor(buildInstructions[k].type)]]

\* VariantPreviewRenderer.renderVariantPreview: the cached image of variantId if
\* there is one, else the image of buildInstructions
renderVariantPreview(cache, buildInstructions, variantId) ==
    IF variantId \in DOMAIN cache THEN cache[variantId] ELSE renderScene(buildInstructions)

\* spawnStructure from the backend's answer to showVariants: validate and fix
\* each variant, render its preview under its index; renderVariantPreview leaves
\* every image it returns in the cache
SpawnStructureVariants(variantsData) ==
    LET validatedVariants == [k \in DOMAIN variantsData |-> validateVariant(variantsData[k])]
        preview(k) == renderVariantPreview(canvasCache, validatedVariants[k], k - 1)
    IN  /\ shownVariants' = [k \in DOMAIN variantsData |->
                           [id |-> k - 1, preview |-> preview(k),
                            buildInstructions |-> validatedVariants[k]]]
        /\ canvasCache' = [id \in DOMAIN canvasCache \cup {k - 1 : k \in DOMAIN variantsData} |->
                              IF id \in DOMAIN canvasCache THEN canvasCache[id]
                              ELSE preview(id + 1)]
        /\ UNCHANGED <<agentVars, structVars, engineVars, forceVars, deskVars, histVars, placeVars,
                       xrVars, serverVars, isXRActive>>

\* the user picks one of the variants shown
SelectShownVariant(k) ==
    /\ k \in DOMAIN shownVariants
    /\ SelectVariant(shownVariants[k].buildInstructions)

NextPreview ==
    \/ \E variantsData \in VariantsData : SpawnStructureVariants(variantsData)
    \/ \E k \in 1..MaxVariants : SelectShownVariant(k)

SpecPreview == Init /\ [][NextPreview]_vars

\* ------------------- ForceVectorManager: placing a force with keyboard and mouse
\* THREE.Vector3.normalize on components in hundredths; the zero vector stays zero
normalize(v) ==
    LET len10 == ISqrt(100 * Dot(v, v))
        Comp(c) == IF c < 0 THEN -(((-c) * 2000 + len10) \div (2 * len10))
                   ELSE (c * 2000 + len10) \div (2 * len10)
    IN  IF len10 = 0 THEN <<0, 0, 0>>
        ELSE <<Comp(v[1]), Comp(v[2]), Comp(v[3])>>

\* where a click's ray meets the ground plane, as <<x, z>> in cm
ClickSet == {<<100, -50>>}

DirectionKeys == {"ArrowUp", "ArrowRight", "s", "q"}

MoveKeys == {"a", "x"}

MagnitudeKeys == {"+", "-"}

\* variant: the + key has no upper limit
IncreaseMagnitude_Unclamped(magnitude) == magnitude + 5

\* the + key: Math.min(tempMagnitude + 0.5, 5.0)
IncreaseMagnitude(magnitude) == Min(magnitude + 5, 50)

\* the - key: Math.max(tempMagnitude - 0.5, 0.5)
DecreaseMagnitude(magnitude) == Max(magnitude - 5, 5)

\* the switch of adjustVectorDirection followed by normalize; "q" is any other key
turnDirection(direction, key) ==
    normalize(CASE key = "ArrowUp" -> [direction EXCEPT ![2] = @ + 20]
                [] key = "ArrowDown" -> [direction EXCEPT ![2] = @ - 20]
                [] key = "ArrowLeft" -> [direction EXCEPT ![1] = @ - 20]
                [] key = "ArrowRight" -> [direction EXCEPT ![1] = @ + 20]
                [] key = "w" -> [direction EXCEPT ![3] = @ - 20]
                [] key = "s" -> [direction EXCEPT ![3] = @ + 20]
                [] OTHER -> direction)

startPlacingVector ==
    /\ isWaitingForClick' = TRUE
    /\ UNCHANGED <<isPlacingVector, tempArrow, tempDirection, tempMagnitude, forceVars>>

confirmVector ==
    IF tempArrow = None
    THEN UNCHANGED <<isPlacingVector, isWaitingForClick, tempArrow, tempDirection,
                     tempMagnitude, forceVars>>
    ELSE /\ LET vector == [id |-> fvNextId, position |-> tempArrow.position,
                           direction |-> tempDirection, magnitude |-> tempMagnitude]
            IN  /\ fvVectors' = Append(fvVectors, vector)
                /\ activeVector' = vector
         /\ fvNextId' = fvNextId + 1
         /\ isPlacingVector' = FALSE
         /\ tempArrow' = None
         /\ UNCHANGED <<isWaitingForClick, tempDirection, tempMagnitude>>

\* keydown of F
KeyF ==
    /\ fvNextId <= MaxVectors
    /\ IF ~isPlacingVector /\ ~isWaitingForClick THEN startPlacingVector
       ELSE IF isPlacingVector THEN confirmVector
       ELSE UNCHANGED <<isPlacingVector, isWaitingForClick, tempArrow, tempDirection,
                        tempMagnitude, forceVars>>
    /\ lastOp' = "keyF"
    /\ lastRun' = NoRun
    /\ UNCHANGED <<agentVars, structVars, engineVars, deskVars, regSnapshot, refRun, xrVars, serverVars, previewVars, isXRActive,
                   keyTurns, keyMoves>>

\* variant: the click that places the arrow also records it as a force
MouseClick_PlacesForce(p) ==
    /\ isWaitingForClick
    /\ tempArrow' = [position |-> <<p[1], 150, p[2]>>]
    /\ tempDirection' = <<0, -100, 0>>
    /\ tempMagnitude' = 15
    /\ isWaitingForClick' = FALSE
    /\ isPlacingVector' = TRUE
    /\ fvVectors' = Append(fvVectors, [id |-> fvNextId, position |-> <<p[1], 150, p[2]>>,
                                       direction |-> <<0, -100, 0>>, magnitude |-> 15])
    /\ lastOp' = "click"
    /\ lastRun' = NoRun
    /\ UNCHANGED <<agentVars, structVars, engineVars, fvNextId, activeVector, deskVars,
                   regSnapshot, refRun, xrVars, serverVars, previewVars, isXRActive, keyTurns, keyMoves>>

\* click on the canvas: handleMouseClick and createTemporaryArrow
MouseClick(p) ==
    /\ isWaitingForClick
    /\ tempArrow' = [position |-> <<p[1], 150, p[2]>>]
    /\ tempDirection' = <<0, -100, 0>>
    /\ tempMagnitude' = 15
    /\ isWaitingForClick' = FALSE
    /\ isPlacingVector' = TRUE
    /\ lastOp' = "click"
    /\ lastRun' = NoRun
    /\ UNCHANGED <<agentVars, structVars, engineVars, forceVars, deskVars, regSnapshot, refRun,
                   xrVars, serverVars, previewVars, isXRActive, keyTurns, keyMoves>>

\* keydown of Escape: cancelPlacing
KeyEscape ==
    /\ tempArrow' = None
    /\ isPlacingVector' = FALSE
    /\ isWaitingForClick' = FALSE
    /\ lastOp' = "escape"
    /\ lastRun' = NoRun
    /\ UNCHANGED <<agentVars, structVars, engineVars, forceVars, deskVars, regSnapshot, refRun,
                   xrVars, serverVars, previewVars, isXRActive, tempDirection, tempMagnitude, keyTurns, keyMoves>>

\* keydown of any other key while an arrow is being placed: adjustVectorDirection
KeyAdjust(key) ==
    /\ isPlacingVector
    /\ key \in DirectionKeys => keyTurns < MaxTurns
    /\ key \in MoveKeys => keyMoves < MaxMoves
    /\ IF tempArrow = None
       THEN UNCHANGED <<tempArrow, tempDirection, tempMagnitude>>
       ELSE CASE key = "a" ->
                    /\ tempArrow' = [tempArrow EXCEPT !.position =
                                        [i \in 1..3 |-> @[i] + (tempDirection[i] * 30) \div 100]]
                    /\ UNCHANGED <<tempDirection, tempMagnitude>>
              [] key = "x" ->
                    /\ tempArrow' = [tempArrow EXCEPT !.position[2] = @ + 30]
                    /\ UNCHANGED <<tempDirection, tempMagnitude>>
              [] key = "+" ->
                    /\ tempMagnitude' = IncreaseMagnitude(tempMagnitude)
                    /\ UNCHANGED <<tempArrow, tempDirection>>
              [] key = "-" ->
                    /\ tempMagnitude' = DecreaseMagnitude(tempMagnitude)
                    /\ UNCHANGED <<tempArrow, tempDirection>>
              [] OTHER ->
                    /\ tempDirection' = turnDirection(tempDirection, key)
                    /\ UNCHANGED <<tempArrow, tempMagnitude>>
    /\ keyTurns' = IF key \in DirectionKeys THEN keyTurns + 1 ELSE keyTurns
    /\ keyMoves' = IF key \in MoveKeys THEN keyMoves + 1 ELSE keyMoves
    /\ lastOp' = "key"
    /\ lastRun' = NoRun
    /\ UNCHANGED <<agentVars, structVars, engineVars, forceVars, deskVars, regSnapshot, refRun,
                   xrVars, serverVars, previewVars, isXRActive, isPlacingVector, isWaitingForClick>>

NextDesktop ==
    \/ KeyF
    \/ \E p \in ClickSet : MouseClick(p)
    \/ KeyEscape
    \/ \E key \in DirectionKeys \cup MoveKeys \cup MagnitudeKeys : KeyAdjust(key)

SpecDesktop == Init /\ [][NextDesktop]_vars

\* the desktop workflow with the Clear Vectors button
NextClear ==
    \/ NextDesktop
    \/ ClearVector

SpecClear == Init /\ [][NextClear]_vars

\* ------------------------------ XRControllerManager: placing a vector in VR
\* getPointedPosition is controller position + ray direction * depth. The pose of
\* the controller is an input: whatever the depth, some pose points at each of
\* these positions (cm), so a read of the ray yields any of them
PointSet == {<<0, 150, -200>>, <<0, 150, -220>>}

\* the controllers whose trigger is used: the right one, index 1
TriggerControllers == {1}

\* one frame of gamepad input: axes[3] in hundredths and the indices of the pressed buttons
FrameInputs ==
    [thumbstickY : {-100, 100}, buttons : {{}}] \cup [thumbstickY : {0}, buttons : {{}, {0}, {1}, {2}}]

blockTypes == <<"cube", "rectangular_prism", "horizontal_rectangular_prism", "pyramid",
                "cylinder">>

\* variant: the length is left squared
length_Squared(v) == Dot(v, v) \div 10

\* THREE.Vector3.length of a vector in cm, in tenths of a metre
length(v) == ISqrt(Dot(v, v)) \div 10

\* variant: the thumbstick moves the depth without limits
thumbstickDepth_Unclamped(depth, thumbstickY) == depth - (thumbstickY * 20) \div 100

\* Math.max(0.5, Math.min(10.0, currentDepth - thumbstickY * 0.2))
thumbstickDepth(depth, thumbstickY) ==
    Max(50, Min(1000, depth - (thumbstickY * 20) \div 100))

\* the ArrowHelper built by updateTemporaryArrow
PreviewArrow(start, end) ==
    [position |-> start, direction |-> normalize(Sub(end, start)),
     magnitude |-> length(Sub(end, start))]

\* variant: a cancelled placement keeps the depth it had
resetPlacementState_KeepDepth ==
    /\ placementState' = "IDLE"
    /\ vectorPlacementController' = NoController
    /\ startPosition' = None
    /\ endPosition' = None
    /\ currentDepth' = currentDepth
    /\ startPointIndicator' = None
    /\ endPointIndicator' = None
    /\ xrTempArrow' = None

resetPlacementState ==
    /\ placementState' = "IDLE"
    /\ vectorPlacementController' = NoController
    /\ startPosition' = None
    /\ endPosition' = None
    /\ currentDepth' = 200
    /\ startPointIndicator' = None
    /\ endPointIndicator' = None
    /\ xrTempArrow' = None

setStartPoint(c, p) ==
    /\ placementState' = "SETTING_START"
    /\ vectorPlacementController' = c
    /\ startPosition' = p
    /\ currentDepth' = 200
    /\ startPointIndicator' = p
    /\ UNCHANGED <<endPosition, endPointIndicator, xrTempArrow, forceVars>>

confirmStartPoint(p) ==
    IF startPosition = None
    THEN UNCHANGED <<placementState, vectorPlacementController, startPosition, endPosition,
                     currentDepth, startPointIndicator, endPointIndicator, xrTempArrow,
                     forceVars>>
    ELSE /\ placementState' = "SETTING_END"
         /\ endPosition' = p
         /\ endPointIndicator' = p
         /\ xrTempArrow' = PreviewArrow(startPosition, p)
         /\ UNCHANGED <<vectorPlacementController, startPosition, currentDepth,
                        startPointIndicator, forceVars>>

\* confirmEndPoint: createVectorAtPosition, that is ForceVectorManager.createVectorFromVR,
\* then resetPlacementState
confirmEndPoint(p) ==
    IF startPosition = None
    THEN UNCHANGED <<placementState, vectorPlacementController, startPosition, endPosition,
                     currentDepth, startPointIndicator, endPointIndicator, xrTempArrow,
                     forceVars>>
    ELSE /\ LET direction == Sub(p, startPosition)
                vector == [id |-> fvNextId, position |-> startPosition,
                           direction |-> normalize(direction), magnitude |-> length(direction)]
            IN  /\ fvVectors' = Append(fvVectors, vector)
                /\ activeVector' = vector
         /\ fvNextId' = fvNextId + 1
         /\ resetPlacementState

\* selectstart of controller c whose ray points at p; checkUIClick returns false
TriggerPress(c, p) ==
    /\ fvNextId <= MaxVectors
    /\ CASE placementState = "IDLE" -> setStartPoint(c, p)
         [] placementState = "SETTING_START" -> confirmStartPoint(p)
         [] placementState = "SETTING_END" -> confirmEndPoint(p)
    /\ pointed' = p
    /\ lastOp' = "other"
    /\ lastRun' = NoRun
    /\ UNCHANGED <<agentVars, structVars, engineVars, deskVars, regSnapshot, refRun, placeVars, serverVars, previewVars, isXRActive,
                   buildModeState, currentBlockTypeIndex, selectedBlockType, buttonFlags,
                   previewBlock>>

\* squeezestart: onGripPress
GripPress ==
    /\ IF placementState # "IDLE"
       THEN resetPlacementState
       ELSE UNCHANGED <<placementState, vectorPlacementController, startPosition, endPosition,
                        currentDepth, startPointIndicator, endPointIndicator, xrTempArrow>>
    /\ lastOp' = "grip"
    /\ lastRun' = NoRun
    /\ UNCHANGED <<agentVars, structVars, engineVars, forceVars, deskVars, regSnapshot, refRun,
                   placeVars, serverVars, previewVars, isXRActive, buildModeState, currentBlockTypeIndex, selectedBlockType,
                   buttonFlags, pointed, previewBlock>>

\* the button and thumbstick part of a frame for the placing controller: the new
\* depth, the new flags of the controller, and the start point after the B button
UpdateFrame(in) ==
    LET c == vectorPlacementController
        Flag(flags, name, pressed) == IF pressed THEN flags \cup {name} ELSE flags \ {name}
        \* the loop over the controllers: handleDeleteBlock and toggleBuildMode
        \* return at once because a placement is in progress
        f1 == Flag(Flag(buttonFlags[c], "x", (IF c = 0 THEN 2 ELSE 3) \in in.buttons),
                   "y", (IF c = 0 THEN 3 ELSE 4) \in in.buttons)
        d1 == IF Abs(in.thumbstickY) > 10 THEN thumbstickDepth(currentDepth, in.thumbstickY)
              ELSE currentDepth
        d2 == IF 0 \in in.buttons /\ "a" \notin f1 THEN Min(1000, d1 + 10) ELSE d1
        f2 == Flag(f1, "a", 0 \in in.buttons)
        d3 == IF 2 \in in.buttons /\ "x" \notin f2 THEN Max(50, d2 - 10) ELSE d2
        f3 == Flag(f2, "x", 2 \in in.buttons)
        settingEnd == /\ placementState = "SETTING_END"
                      /\ startPosition # None
                      /\ endPosition # None
        moved == settingEnd /\ 1 \in in.buttons /\ "b" \notin f3
        step == normalize(Sub(endPosition, startPosition))
    IN  [depth |-> d3,
         flags |-> IF settingEnd THEN Flag(f3, "b", 1 \in in.buttons) ELSE f3,
         moved |-> moved,
         start |-> IF moved
                   THEN [i \in 1..3 |-> startPosition[i] + (step[i] * 20) \div 100]
                   ELSE startPosition]

\* a frame of update() while a vector is being placed: in is the gamepad state of
\* the placing controller and p the position its ray points at. In the idle
\* state a frame only polls the delete and build-mode buttons.
Update(in, p) ==
    /\ placementState # "IDLE"
    /\ vectorPlacementController # NoController
    /\ \E frame \in {UpdateFrame(in)} :
          /\ currentDepth' = frame.depth
          /\ buttonFlags' = [buttonFlags EXCEPT ![vectorPlacementController] = frame.flags]
          /\ IF placementState = "SETTING_START"
             THEN /\ startPosition' = p
                  /\ startPointIndicator' = IF startPointIndicator # None THEN p ELSE None
                  /\ UNCHANGED <<endPosition, endPointIndicator, xrTempArrow>>
             ELSE /\ startPosition' = frame.start
                  /\ startPointIndicator' = IF frame.moved /\ startPointIndicator # None
                                            THEN frame.start ELSE startPointIndicator
                  /\ endPosition' = IF 2 \notin in.buttons THEN p ELSE endPosition
                  /\ endPointIndicator' = IF endPointIndicator # None /\ 2 \notin in.buttons
                                          THEN p ELSE endPointIndicator
                  /\ xrTempArrow' = IF frame.start # None /\ endPosition' # None
                                    THEN PreviewArrow(frame.start, endPosition')
                                    ELSE xrTempArrow
    /\ previewBlock' = IF buildModeState = "ACTIVE" /\ previewBlock = None
                       THEN [type |-> selectedBlockType] ELSE previewBlock
    /\ pointed' = p
    /\ lastOp' = "other"
    /\ lastRun' = NoRun
    /\ UNCHANGED <<agentVars, structVars, engineVars, forceVars, deskVars, regSnapshot, refRun,
                   placeVars, serverVars, previewVars, isXRActive, placementState, vectorPlacementController, buildModeState,
                   currentBlockTypeIndex, selectedBlockType>>

\* the fields written by toggleBuildMode and exitBuildMode, as exitBuildMode leaves them
exitBuildMode ==
    [buildModeState |-> "INACTIVE", currentBlockTypeIndex |-> 0, selectedBlockType |-> "cube",
     currentDepth |-> currentDepth, previewBlock |-> None]

\* variant: after the last type the cycle starts again with the first
toggleBuildMode_NoExit ==
    IF placementState # "IDLE"
    THEN [buildModeState |-> buildModeState, currentBlockTypeIndex |-> currentBlockTypeIndex,
          selectedBlockType |-> selectedBlockType, currentDepth |-> currentDepth,
          previewBlock |-> previewBlock]
    ELSE IF buildModeState = "INACTIVE"
    THEN [buildModeState |-> "ACTIVE", currentBlockTypeIndex |-> 0,
          selectedBlockType |-> blockTypes[1], currentDepth |-> 200,
          previewBlock |-> previewBlock]
    ELSE LET index == (currentBlockTypeIndex + 1) % Len(blockTypes)
         IN  [buildModeState |-> buildModeState, currentBlockTypeIndex |-> index,
              selectedBlockType |-> blockTypes[index + 1], currentDepth |-> currentDepth,
              previewBlock |-> [type |-> blockTypes[index + 1]]]

\* the same fields after toggleBuildMode
toggleBuildMode ==
    IF placementState # "IDLE"
    THEN [buildModeState |-> buildModeState, currentBlockTypeIndex |-> currentBlockTypeIndex,
          selectedBlockType |-> selectedBlockType, currentDepth |-> currentDepth,
          previewBlock |-> previewBlock]
    ELSE IF buildModeState = "INACTIVE"
    THEN [buildModeState |-> "ACTIVE", currentBlockTypeIndex |-> 0,
          selectedBlockType |-> blockTypes[1], currentDepth |-> 200,
          previewBlock |-> previewBlock]
    ELSE IF (currentBlockTypeIndex + 1) % Len(blockTypes) = 0
    THEN exitBuildMode
    ELSE LET index == (currentBlockTypeIndex + 1) % Len(blockTypes)
         IN  [buildModeState |-> buildModeState, currentBlockTypeIndex |-> index,
              selectedBlockType |-> blockTypes[index + 1], currentDepth |-> currentDepth,
              previewBlock |-> [type |-> blockTypes[index + 1]]]

\* the Y button of a controller goes down: toggleBuildMode
ToggleBuildMode ==
    /\ buildModeState' = toggleBuildMode.buildModeState
    /\ currentBlockTypeIndex' = toggleBuildMode.currentBlockTypeIndex
    /\ selectedBlockType' = toggleBuildMode.selectedBlockType
    /\ currentDepth' = toggleBuildMode.currentDepth
    /\ previewBlock' = toggleBuildMode.previewBlock
    /\ lastOp' = "other"
    /\ lastRun' = NoRun
    /\ UNCHANGED <<agentVars, structVars, engineVars, forceVars, deskVars, regSnapshot, refRun,
                   placeVars, serverVars, previewVars, isXRActive, placementState, vectorPlacementController,
                   startPosition, endPosition, startPointIndicator, endPointIndicator,
                   xrTempArrow, buttonFlags, pointed>>

NextVR ==
    \/ \E c \in TriggerControllers, p \in PointSet : TriggerPress(c, p)
    \/ GripPress
    \/ \E in \in FrameInputs, p \in PointSet : Update(in, p)
    \/ ToggleBuildMode

SpecVR == Init /\ [][NextVR]_vars

\* ------------- XRControllerManager.update while no vector is being placed
\* the gamepad of one controller in a frame: the indices of its pressed buttons;
\* the other controller has no button down
ButtonInputs == [controller : {0, 1}, buttons : SUBSET {2, 3, 4}]

\* the Meta/Menu check of update(): button 3 or 4 of the right controller is down
metaPressed(in) == in.controller = 1 /\ (3 \in in.buttons \/ 4 \in in.buttons)

\* renderer.xr 'sessionstart': the user enters VR
SessionStart ==
    /\ ~isXRActive
    /\ isXRActive' = TRUE
    /\ lastOp' = "other"
    /\ lastRun' = NoRun
    /\ UNCHANGED <<agentVars, structVars, engineVars, forceVars, deskVars, regSnapshot, refRun,
                   placeVars, xrVars, serverVars, previewVars>>

\* a frame of update() in the idle placement state: in is the gamepad state and
\* hit the index of the block the controller's ray meets first, 0 for none.
\* The X button deletes, the Y button toggles build mode, both on their way
\* down; then the Meta check, then the build-mode preview
ControllerFrame(in, hit) ==
    /\ placementState = "IDLE"
    /\ hit \in 0..Len(smBlocks)
    /\ LET c == in.controller
           xDown == (IF c = 0 THEN 2 ELSE 3) \in in.buttons
           yDown == (IF c = 0 THEN 3 ELSE 4) \in in.buttons
           xPress == xDown /\ "x" \notin buttonFlags[c]
           yPress == yDown /\ "y" \notin buttonFlags[c]
           Flag(flags, name, pressed) == IF pressed THEN flags \cup {name} ELSE flags \ {name}
           build == IF yPress THEN toggleBuildMode
                    ELSE [buildModeState |-> buildModeState,
                          currentBlockTypeIndex |-> currentBlockTypeIndex,
                          selectedBlockType |-> selectedBlockType,
                          currentDepth |-> currentDepth, previewBlock |-> previewBlock]
       IN  /\ buttonFlags' = [k \in {0, 1} |->
                                 IF k = c THEN Flag(Flag(buttonFlags[k], "x", xDown), "y", yDown)
                                 ELSE buttonFlags[k] \ {"x", "y"}]
           /\ IF xPress /\ buildModeState # "ACTIVE" /\ hit > 0
              THEN SetStruct(StructureRemoveBlock(StructState, smBlocks[hit].id))
              ELSE UNCHANGED structVars
           /\ buildModeState' = build.buildModeState
           /\ currentBlockTypeIndex' = build.currentBlockTypeIndex
           /\ selectedBlockType' = build.selectedBlockType
           /\ currentDepth' = build.currentDepth
           /\ previewBlock' = IF build.buildModeState = "ACTIVE" /\ build.previewBlock = None
                              THEN [type |-> build.selectedBlockType]
                              ELSE build.previewBlock
           /\ isXRActive' = IF metaPressed(in) THEN FALSE ELSE isXRActive
           /\ lastOp' = IF yPress THEN "toggle" ELSE "other"
    /\ lastRun' = NoRun
    /\ UNCHANGED <<agentVars, engineVars, forceVars, deskVars, regSnapshot, refRun, placeVars,
                   serverVars, previewVars, placementState, vectorPlacementController, startPosition,
                   endPosition, startPointIndicator, endPointIndicator, xrTempArrow, pointed>>

NextButtons ==
    \/ \E data \in VariantPool : SelectVariant(data)
    \/ SessionStart
    \/ \E in \in ButtonInputs, hit \in 0..MaxMeshes : ControllerFrame(in, hit)

SpecButtons == Init /\ [][NextButtons]_vars

\* ------------------------------------- backend: POST /api/generate-variants
MaxReply == 2       \* most variants in one parsed AI reply

NoCount == 0        \* the request body carries no count

NoField == <<>>     \* the pos or size that a block of the reply lacks

NonNumeric == -1000001  \* a JSON string that is not a number, such as "large"

NaN == -1000002         \* the number NaN

\* the blocks an AI reply can hold: a well-formed cube; a block with an unknown
\* type, a zero and an oversized dimension and a zero height; a block without
\* size; a block below the ground with a negative dimension; a block with
\* strings where numbers belong; a well-formed cylinder in the air
ReplyBlocks ==
    {[type |-> "cube", pos |-> <<0, 50, 0>>, size |-> <<100, 100, 100>>],
     [type |-> "sphere", pos |-> <<200, 0, 0>>, size |-> <<600, 0, 4>>],
     [type |-> "cube", pos |-> <<0, 50, 0>>, size |-> NoField],
     [type |-> "pyramid", pos |-> <<0, -50, 0>>, size |-> <<-20, 100, 100>>],
     [type |-> "cube", pos |-> <<0, NonNumeric, 0>>, size |-> <<NonNumeric, 100, 100>>],
     [type |-> "cylinder", pos |-> <<100, 300, 0>>, size |-> <<30, 80, 30>>]}

\* the elements of the parsed reply: hasBlocks tells whether the variant has a
\* blocks array, description is "" when it has none
ReplyVariants ==
    [hasBlocks : {TRUE}, blocks : {<<>>} \cup {<<b>> : b \in ReplyBlocks},
     description : {"", "tower"}]
    \cup [hasBlocks : {FALSE}, blocks : {<<>>}, description : {"", "tower"}]

Replies == UNION {[1..n -> ReplyVariants] : n \in 0..MaxReply}

\* request bodies: prompt is "" when missing
Bodies == [prompt : {"", "tower"}, count : {NoCount, 1, 2}]

validTypes == {"cube", "rectangular_prism", "horizontal_rectangular_prism", "pyramid", "cylinder"}

\* the body of the validation loop for a block that has type, pos and size.
\* Math.min and Math.max of a string that is not a number, or of NaN, are NaN;
\* d || 0.5 replaces 0 and keeps a string
validatedBlock(block) ==
    LET Dim(d) == IF d = NonNumeric THEN NaN ELSE Max(10, Min(500, IF d = 0 THEN 50 ELSE d))
        size == <<Dim(block.size[1]), Dim(block.size[2]), Dim(block.size[3])>>
        half == IF size[2] = NaN THEN NaN ELSE size[2] \div 2
        y == IF block.pos[2] = 0 THEN half ELSE block.pos[2]
    IN  [type |-> IF block.type \in validTypes THEN block.type ELSE "cube",
         pos |-> <<block.pos[1],
                   IF half = NaN \/ y = NaN \/ y = NonNumeric THEN NaN ELSE Max(half, y),
                   block.pos[3]>>,
         size |-> size]

\* the validation loop over the blocks: blocks without type, pos or size are skipped
RECURSIVE validatedBlocks(_)
validatedBlocks(blocks) ==
    IF blocks = <<>> THEN <<>>
    ELSE LET block == Head(blocks)
         IN  IF block.type = "" \/ block.pos = NoField \/ block.size = NoField
             THEN validatedBlocks(Tail(blocks))
             ELSE <<validatedBlock(block)>> \o validatedBlocks(Tail(blocks))

\* STEP 2 of the handler: the variants kept from aiVariants[i..], at most up to
\* index Math.min(count, aiVariants.length)
RECURSIVE validatedVariants(_, _, _)
validatedVariants(aiVariants, count, i) ==
    IF i > Min(count, Len(aiVariants)) THEN <<>>
    ELSE LET variant == aiVariants[i]
             rest == validatedVariants(aiVariants, count, i + 1)
         IN  IF ~variant.hasBlocks THEN rest
             ELSE IF validatedBlocks(variant.blocks) = <<>> THEN rest
             ELSE <<[id |-> i, data |-> validatedBlocks(variant.blocks),
                     description |-> IF variant.description = ""
                                     THEN "Variant " \o ToString(i)
                                     ELSE variant.description]>> \o rest

\* the handler: 400 without a prompt; count defaults to 5. When fewer than count
\* variants are kept, the fill loop reads availableTemplates, which part_002
\* neither declares nor imports: the read throws a ReferenceError and the catch
\* block answers 500
generateVariants(body, aiVariants) ==
    LET count == IF body.count = NoCount THEN 5 ELSE body.count
        variants == validatedVariants(aiVariants, count, 1)
    IN  IF body.prompt = ""
        THEN [status |-> 400, body |-> [error |-> "Prompt is required"]]
        ELSE IF Len(variants) < count
        THEN [status |-> 500, body |-> [error |-> "Failed to generate variants"]]
        ELSE [status |-> 200, body |-> [success |-> TRUE, variants |-> variants]]

PostGenerateVariants(body, aiVariants) ==
    /\ request' = [body |-> body, reply |-> aiVariants]
    /\ response' = generateVariants(body, aiVariants)
    /\ UNCHANGED <<agentVars, structVars, engineVars, forceVars, deskVars, histVars, placeVars,
                   xrVars, previewVars, isXRActive>>

NextVariants == \E body \in Bodies, aiVariants \in Replies : PostGenerateVariants(body, aiVariants)

SpecVariants == Init /\ [][NextVariants]_vars

\* ------------------------------------ backend: POST /api/generate-structure
StructureBodies == [prompt : {"", "tower", "bridge"}]

\* the parsed AI output: hasBlocks tells whether it has a blocks array
StructureReplies ==
    [hasBlocks : {TRUE}, blocks : UNION {[1..n -> ReplyBlocks] : n \in 0..MaxReply}]
    \cup [hasBlocks : {FALSE}, blocks : {<<>>}]

\* the handler: 400 without a prompt, 500 when the output has no blocks array or
\* no block survives, else the validated blocks
generateStructure(body, aiOutput) ==
    IF body.prompt = ""
    THEN [status |-> 400, body |-> [error |-> "Prompt is required"]]
    ELSE IF ~aiOutput.hasBlocks \/ validatedBlocks(aiOutput.blocks) = <<>>
    THEN [status |-> 500, body |-> [error |-> "Failed to generate structure"]]
    ELSE [status |-> 200, body |-> [success |-> TRUE, data |-> validatedBlocks(aiOutput.blocks)]]

PostGenerateStructure(body, aiOutput) ==
    /\ request' = [body |-> body, reply |-> aiOutput]
    /\ response' = generateStructure(body, aiOutput)
    /\ UNCHANGED <<agentVars, structVars, engineVars, forceVars, deskVars, histVars, placeVars,
                   xrVars, previewVars, isXRActive>>

NextStructure ==
    \E body \in StructureBodies, aiOutput \in StructureReplies : PostGenerateStructure(body, aiOutput)

SpecStructure == Init /\ [][NextStructure]_vars

\* ================================================================ claims
\* C1: starting from a fresh body (stress 0, failed false), after runSimulation
\* the failed flag is true if and only if the final stress ratio, self-weight
\* included, is at least 1.0
C1_FailedIffStressAtLeastOne ==
    [][lastOp' = "run" =>
         \A m \in (DOMAIN feaBlocks) \cap (DOMAIN feaBlocks') :
            (feaBlocks[m].stress = 0 /\ ~feaBlocks[m].failed) =>
                /\ lastRun'.results[m].stress = feaBlocks'[m].stress
                /\ lastRun'.results[m].failed = feaBlocks'[m].failed
                /\ (feaBlocks'[m].failed <=> feaBlocks'[m].stress >= One)]_vars

\* C2: for a non-empty list of bodies, validating the result of fix reports
\* the structure valid with zero issues
C2_ValidAfterFix ==
    (agentOp = "validate" /\ agentFixes >= 1 /\ Len(agentInput) >= 1) =>
        (agentReport.valid /\ agentReport.issues = <<>>)

\* a list with a floating body was fixed and then validated
C2_Witness ==
    /\ agentOp = "validate"
    /\ agentFixes = 1
    /\ Len(agentInput) >= 2
    /\ ~validateStructure(agentInput).valid
    /\ agentReport.valid

\* C3: the engine simulates no block that was removed from the scene, and the
\* block count a run reports is the number of blocks in the scene
C3_EngineTracksScene ==
    /\ DOMAIN feaBlocks \subseteq scene
    /\ lastOp = "run" => lastRun.totalBlocks = Cardinality(scene)

\* C4: a run with the force of the reference run, on the same registered
\* bodies, returns the stress ratios of the reference run, whatever ran between
C4_Deterministic ==
    (lastOp = "run" /\ refRun.set /\ currentForceVector = refRun.force) =>
        StressOf(lastRun) = refRun.stress

\* the reference force was run again after a run with another force
C4_Witness ==
    /\ lastOp = "run"
    /\ refRun.repeated
    /\ currentForceVector = refRun.force
    /\ \E m \in DOMAIN feaBlocks : refRun.stress[m] > 0

\* C5: a second fix pass moves nothing: the body it processes k-th comes out
\* with the position it went in with
C5_FixIdempotent ==
    (agentOp = "fix" /\ agentFixes >= 2) =>
        \A k \in 1..Len(agentBlocks) :
            agentBlocks[k].pos = agentPrev[sortedIndices(agentPrev)[k] + 1].pos

\* C6: a structure reported valid has every body connected to the ground by
\* a chain of rests-on relations
C6_ValidMeansGrounded ==
    LET RECURSIVE Reach(_)
        Reach(S) ==
            LET T == S \cup {i \in DOMAIN agentBlocks :
                                \E j \in S : SupportedBy(agentBlocks[i], agentBlocks[j])}
            IN  IF T = S THEN S ELSE Reach(T)
    IN  (agentOp = "validate" /\ agentReport.valid) =>
            Reach({i \in DOMAIN agentBlocks : onGround(agentBlocks[i])}) = DOMAIN agentBlocks

\* C7 as stated: validate on zero bodies returns valid = true and no issue
C7_EmptyIsValid ==
    (agentOp = "validate" /\ Len(agentBlocks) = 0) =>
        (agentReport.valid /\ agentReport.issues = <<>>)

\* C7, amended: validate on zero bodies returns valid = false and exactly one
\* issue, the one saying that the structure has no blocks
C7_EmptyIsReported ==
    (agentOp = "validate" /\ Len(agentBlocks) = 0) =>
        agentReport = [valid |-> FALSE, issues |-> <<NoBlocksIssue>>]

\* validate ran on the empty list
C7_Witness ==
    /\ agentOp = "validate"
    /\ Len(agentBlocks) = 0
    /\ Len(agentReport.issues) = 1

\* C8: for two unit cubes [lower at (0,0.5,0), upper at (0,5,0)] validate
\* reports exactly the issue of index 1, fix leaves the lower one in place and
\* moves the upper one to (0,1.5,0), and validate on the result reports no issue
C8_TwoCubeScenario ==
    agentInput = <<Cube(0, 50, 0, 100), Cube(0, 500, 0, 100)>> =>
        /\ (agentOp = "validate" /\ agentFixes = 0) =>
               agentReport = [valid |-> FALSE, issues |-> <<1>>]
        /\ agentFixes >= 1 =>
               agentBlocks = <<Cube(0, 50, 0, 100), Cube(0, 150, 0, 100)>>
        /\ (agentOp = "validate" /\ agentFixes >= 1) =>
               agentReport = [valid |-> TRUE, issues |-> <<>>]

\* the two cubes were fixed once and validated again
C8_Witness ==
    /\ agentInput = <<Cube(0, 50, 0, 100), Cube(0, 500, 0, 100)>>
    /\ agentFixes = 1
    /\ agentOp = "validate"
    /\ agentBlocks[2].pos = <<0, 150, 0>>

\* C9: after resetSimulation every registered body has the scale and the
\* position it had when it was registered
C9_ResetRestoresRegistration ==
    lastOp = "reset" =>
        \A m \in DOMAIN feaBlocks :
            /\ meshes[m].scale = regSnapshot[m].scale
            /\ meshes[m].position = regSnapshot[m].position

\* a reset that followed a run which had deformed a body
C9_Witness ==
    /\ lastOp = "reset"
    /\ refRun.set
    /\ refRun.other
    /\ \E m \in DOMAIN feaBlocks :
          /\ feaBlocks[m].boundaryCondition # "fixed"
          /\ DeformationFactor(refRun.stress[m], 1) > UnitScale
          /\ meshes[m].scale = UnitScale

\* C10: after a run every non-fixed body's scale is its registration scale
\* times 1 + stress * 0.1 * deformationScale for the stress of that run
C10_DeformationFromRegistrationScale ==
    lastOp = "run" =>
        \A m \in DOMAIN feaBlocks :
            feaBlocks[m].boundaryCondition # "fixed" =>
                meshes[m].scale =
                    (regSnapshot[m].scale
                       * DeformationFactor(lastRun.results[m].stress, deformationScale))
                    \div UnitScale

\* a run on a body still deformed and marked failed by an earlier run, not reset since
C10_Witness ==
    /\ lastOp = "run"
    /\ \E m \in DOMAIN feaBlocks :
          /\ feaBlocks[m].boundaryCondition # "fixed"
          /\ feaBlocks[m].failed
          /\ lastRun.results[m].stress < One
          /\ meshes[m].scale > UnitScale

\* C11: resetSimulation sets stress to 0 and failed to false for every
\* registered body and neither adds nor removes a registered body
C11_ResetZeroesAndKeepsRegistry ==
    [][lastOp' = "reset" =>
          /\ DOMAIN feaBlocks' = DOMAIN feaBlocks
          /\ \A m \in DOMAIN feaBlocks' :
                feaBlocks'[m].stress = 0 /\ ~feaBlocks'[m].failed]_vars

\* a reset of a registry holding a body that a run had loaded to its limit
C11_Witness ==
    /\ lastOp = "reset"
    /\ refRun.set
    /\ \E m \in DOMAIN feaBlocks : refRun.stress[m] >= One /\ ~feaBlocks[m].failed

\* C12: a run never changes the scale of a body whose boundary condition is
\* fixed, whatever its stress and the deformation scale
C12_FixedKeepsScale ==
    [][lastOp' = "run" =>
          \A m \in DOMAIN feaBlocks :
              feaBlocks[m].boundaryCondition = "fixed" =>
                  meshes'[m].scale = meshes[m].scale]_vars

\* a run that stressed a fixed body
C12_Witness ==
    /\ lastOp = "run"
    /\ \E m \in DOMAIN feaBlocks :
          /\ feaBlocks[m].boundaryCondition = "fixed"
          /\ DeformationFactor(lastRun.results[m].stress, deformationScale) > UnitScale
          /\ meshes[m].scale = UnitScale

C14_MonotoneInMagnitude ==
    lastOp = "run" =>
        \A mag \in MagnitudeSet :
            \E other \in {runSimulation(feaBlocks, meshes,
                                       [currentForceVector EXCEPT !.magnitude = mag],
                                       deformationScale).result.results} :
                \A m \in DOMAIN feaBlocks :
                    /\ mag <= currentForceVector.magnitude =>
                            other[m].stress <= lastRun.results[m].stress
                    /\ mag >= currentForceVector.magnitude =>
                            other[m].stress >= lastRun.results[m].stress

\* a run for which a smaller magnitude gives some body a strictly smaller stress
C14_Witness ==
    /\ lastOp = "run"
    /\ \E mag \in MagnitudeSet, m \in DOMAIN feaBlocks :
          /\ mag < currentForceVector.magnitude
          /\ runSimulation(feaBlocks, meshes, [currentForceVector EXCEPT !.magnitude = mag],
                           deformationScale).result.results[m].stress
                < lastRun.results[m].stress

\* C15: the stress computed for every vertex lies in [0, 2] and the local
\* multiplier lies in [0.5, 1.5], being 1.0 when the body's centre is closer
\* than 0.01 to the force origin
C15_VertexStressBounded ==
    lastOp = "run" =>
        \A m \in DOMAIN feaBlocks :
            LET vs == Vertices(meshes[m])
            IN  /\ Len(meshes[m].vertexStress) = Len(vs)
                /\ \A i \in 1..Len(vs) :
                      LET mult == LocalStressMultiplier(vs[i], meshes[m], currentForceVector)
                      IN  /\ meshes[m].vertexStress[i] >= 0
                          /\ meshes[m].vertexStress[i] <= 2 * One
                          /\ mult >= UnitScale \div 2
                          /\ mult <= (3 * UnitScale) \div 2
                          /\ DistSq(meshes[m].position, currentForceVector.position) < 1
                                => mult = UnitScale

\* a run that capped a vertex, amplified one, attenuated one, and had a body
\* centred on the force origin
C15_Witness ==
    /\ lastOp = "run"
    /\ \E m \in DOMAIN feaBlocks : \E i \in 1..Len(meshes[m].vertexStress) :
          /\ meshes[m].vertexStress[i] = 2 * One
          /\ (feaBlocks[m].stress \div UnitScale)
                * LocalStressMultiplier(Vertices(meshes[m])[i], meshes[m], currentForceVector)
                > 2 * One
    /\ \E m \in DOMAIN feaBlocks : \E i \in 1..Len(meshes[m].vertexStress) :
          LocalStressMultiplier(Vertices(meshes[m])[i], meshes[m], currentForceVector)
              = UnitScale \div 2
    /\ \E m \in DOMAIN feaBlocks :
          /\ DistSq(meshes[m].position, currentForceVector.position) < 1
          /\ feaBlocks[m].stress > 0

\* C16: while no force vector is active no run is made, and a stress test
\* requested then changes no body's stress, failed flag, colour or scale
C16_NoRunWithoutVector ==
    [][/\ activeVector = None => lastOp' # "run"
       /\ lastOp' = "refused" => UNCHANGED <<feaBlocks, meshes, currentForceVector>>]_vars

\* a stress test was turned down, with bodies registered, after the vector was cleared
C16_Witness ==
    /\ lastOp = "refused"
    /\ activeVector = None
    /\ fvNextId > 1
    /\ DOMAIN feaBlocks # {}

\* C17: every block of the structure is on the ground (centre Y about half its
\* height) or has its bottom face, within the tolerance, on the top face of
\* another block of the structure that it overlaps horizontally
C17_NoFloatingBlocks ==
    \A k \in 1..Len(smBlocks) :
        LET pos == meshes[smBlocks[k].mesh].position
            size == smBlocks[k].size
            bottom == pos[2] - size[2] \div 2
        IN  \/ Abs(bottom) < Eps
            \/ \E j \in 1..Len(smBlocks) :
                  LET opos == meshes[smBlocks[j].mesh].position
                      osize == smBlocks[j].size
                      reach == Max(size[1], size[3]) \div 2 + Max(osize[1], osize[3]) \div 2
                  IN  /\ j # k
                      /\ Abs(bottom - (opos[2] + osize[2] \div 2)) < Eps
                      /\ Abs(opos[1] - pos[1]) < reach
                      /\ Abs(opos[3] - pos[3]) < reach

\* C18: the build instructions of every variant handed to the selection UI
\* validate as valid
C18_ShownVariantsValid ==
    agentOp = "prepare" => validateStructure(agentBlocks).valid

\* C19: when a variant that validates as valid has been built block by block
\* in list order, every block is at the position its build instruction gives
C19_BuiltAsInstructed ==
    (agentOp = "prepare" /\ Len(smBlocks) = Len(agentBlocks)
        /\ validateStructure(agentBlocks).valid) =>
        \A k \in 1..Len(smBlocks) :
            meshes[smBlocks[k].mesh].position = agentBlocks[k].pos

\* C20: a fix pass returns as many bodies as it was given, each body of the
\* input comes out with the type, size, X and Z it went in with, and the list
\* handed to the first pass is still the list the caller holds
C20_FixChangesOnlyHeight ==
    agentOp = "fix" =>
        /\ Len(agentBlocks) = Len(agentPrev)
        /\ \A k \in 1..Len(agentBlocks) :
            LET in == agentPrev[sortedIndices(agentPrev)[k] + 1]
                out == agentBlocks[k]
            IN  /\ out.type = in.type
                /\ out.size = in.size
                /\ out.pos[1] = in.pos[1]
                /\ out.pos[3] = in.pos[3]
        /\ agentFixes = 1 => agentPrev = agentInput

C20_Witness ==
    /\ agentOp = "fix"
    /\ \E k \in 1..Len(agentBlocks) :
        /\ agentBlocks[k].pos[2] # agentPrev[sortedIndices(agentPrev)[k] + 1].pos[2]
        /\ agentBlocks[k].pos[1] # 0
    /\ sortedIndices(agentPrev) # [k \in 1..Len(agentPrev) |-> k - 1]

\* C21: a fix pass moves bodies down only: every body whose position the pass
\* changes comes out no higher than it went in
C21_FixMovesDown ==
    agentOp = "fix" =>
        \A k \in 1..Len(agentBlocks) :
            agentBlocks[k].pos[2] <= agentPrev[sortedIndices(agentPrev)[k] + 1].pos[2]

\* C22: in the desktop workflow the list of force vectors and the active vector
\* change only when F is pressed while an arrow is being adjusted
C22_ForceOnlyOnConfirm ==
    [][(fvVectors' # fvVectors \/ activeVector' # activeVector) =>
          (lastOp' = "keyF" /\ isPlacingVector /\ tempArrow # None)]_vars

\* a force confirmed after a click and after direction, move and magnitude keys
C22_Witness ==
    /\ lastOp = "keyF"
    /\ Len(fvVectors) = 1
    /\ activeVector = fvVectors[1]
    /\ keyTurns > 0
    /\ keyMoves > 0
    /\ activeVector.magnitude # 15

\* C23: the magnitude of the force being placed and of every force confirmed
\* on the desktop is between 0.5 and 5.0
C23_MagnitudeInRange ==
    /\ tempMagnitude \in 5..50
    /\ \A k \in 1..Len(fvVectors) : fvVectors[k].magnitude \in 5..50

\* a force confirmed at the upper limit, reached with + keys
C23_Witness ==
    /\ Len(fvVectors) = 1
    /\ fvVectors[1].magnitude = 50
    /\ tempMagnitude = 50

C26_DepthInRange == currentDepth \in 50..1000

\* the depth at its upper limit during a placement started in build mode
C26_Witness ==
    /\ currentDepth = 1000
    /\ buildModeState = "ACTIVE"
    /\ placementState = "SETTING_END"

\* C27: a trigger press in build mode adds one block to the structure and
\* leaves build mode active
C27_TriggerPlacesBlock ==
    [][(/\ buildModeState = "ACTIVE"
        /\ \E c \in TriggerControllers, p \in PointSet : TriggerPress(c, p)) =>
          (Len(smBlocks') = Len(smBlocks) + 1 /\ buildModeState' = "ACTIVE")]_vars

\* C30: every force vector, and the active one, has a positive magnitude and a
\* direction of length one
C30_PositiveUnitVectors ==
    \A v \in {fvVectors[k] : k \in 1..Len(fvVectors)} \cup ({activeVector} \ {None}) :
        /\ v.magnitude > 0
        /\ Dot(v.direction, v.direction) \in (97 * 97)..(103 * 103)

\* C28: a request with a prompt is answered with success and exactly count
\* variants (5 when the body has no count), whatever number of the AI's variants
\* survives validation
C28_AlwaysCountVariants ==
    (response # None /\ request.body.prompt # "") =>
        /\ response.status = 200
        /\ response.body.success
        /\ Len(response.body.variants) =
               (IF request.body.count = NoCount THEN 5 ELSE request.body.count)

\* C29: a body marked failed by an earlier run and not reset since, for which a
\* run computes a stress ratio below 1.0, is reported by that run as not failed
\* and is not counted among the failed blocks
C29_FailedNotSticky ==
    [][lastOp' = "run" =>
          LET recovered == {m \in DOMAIN feaBlocks :
                               feaBlocks[m].failed /\ lastRun'.results[m].stress < One}
          IN  /\ \A m \in recovered : ~lastRun'.results[m].failed
              /\ lastRun'.failedBlocks <= Cardinality(DOMAIN feaBlocks \ recovered)]_vars

\* C31: during a placement, a frame in which button 2 of the placing controller
\* is still down after a frame in which it was down leaves the depth as it is:
\* the depth goes down once per press, however long the button is held
C31_OneStepPerPress ==
    [][(/\ placementState # "IDLE"
        /\ placementState' = placementState
        /\ "x" \in buttonFlags[vectorPlacementController]
        /\ "x" \in buttonFlags'[vectorPlacementController]) =>
          currentDepth' = currentDepth]_vars

\* C35: build mode is never active while a vector is being placed
C35_BuildExcludesPlacement ==
    ~(buildModeState = "ACTIVE" /\ placementState # "IDLE")

\* C32: with the placement idle, a Y press in the inactive state enters build
\* mode with the cube selected, a Y press in build mode selects the next type
\* in the order cube, rectangular prism, horizontal rectangular prism, pyramid,
\* cylinder, and the Y press on the last type leaves build mode, removes the
\* preview block and selects the cube again
C32_BuildModeCycle ==
    [][lastOp' = "toggle" =>
          LET order == <<"cube", "rectangular_prism", "horizontal_rectangular_prism",
                         "pyramid", "cylinder">>
              at == CHOOSE k \in 1..5 : order[k] = selectedBlockType
          IN  IF buildModeState = "INACTIVE"
              THEN buildModeState' = "ACTIVE" /\ selectedBlockType' = "cube"
              ELSE IF at < 5
              THEN buildModeState' = "ACTIVE" /\ selectedBlockType' = order[at + 1]
              ELSE /\ buildModeState' = "INACTIVE"
                   /\ selectedBlockType' = "cube"
                   /\ previewBlock' = None]_vars

\* build mode left by the Y press that follows the last type
C32_Witness ==
    /\ lastOp = "toggle"
    /\ buildModeState = "INACTIVE"
    /\ previewBlock = None
    /\ buttonFlags[0] = {"y"}

\* C36: a frame in which the X or the Y button of the right controller goes
\* down leaves the XR session as it is
C36_ButtonsKeepSession ==
    [][(\E name \in {"x", "y"} : name \in buttonFlags'[1] /\ name \notin buttonFlags[1]) =>
          isXRActive' = isXRActive]_vars

\* C33: the stress ratio and the failed flag that a run reports for a body are
\* those of a run with the same force on that body alone, and those of the run
\* with the bodies processed in any other order
C33_BodiesIndependent ==
    [][lastOp' = "run" =>
          LET keys == DOMAIN feaBlocks
              orders == {o \in [1..Cardinality(keys) -> keys] :
                            \A i, j \in DOMAIN o : o[i] = o[j] => i = j}
              Same(m, blocks) == /\ blocks[m].stress = lastRun'.results[m].stress
                                 /\ blocks[m].failed = lastRun'.results[m].failed
          IN  /\ \A m \in keys :
                    Same(m, runSimulationInOrder(feaBlocks, meshes, currentForceVector',
                                                 deformationScale, <<m>>).blocks)
              /\ \A o \in orders :
                    \E run \in {runSimulationInOrder(feaBlocks, meshes, currentForceVector',
                                                     deformationScale, o)} :
                        \A m \in keys : Same(m, run.blocks)]_vars

\* a run on two registered bodies with different stress ratios
C33_Witness ==
    /\ lastOp = "run"
    /\ \E m, n \in DOMAIN feaBlocks :
          /\ lastRun.results[m].stress > lastRun.results[n].stress
          /\ lastRun.results[n].stress > 0

\* C34: every block of a successful generate-structure response has one of the
\* five block types, its three dimensions between 0.1 and 5.0 and its centre at
\* least half its height above the ground, and a reply in which no block has
\* type, pos and size is answered with an error
C34_StructureBlocksValid ==
    (response # None /\ request.body.prompt # "") =>
        /\ response.status = 200 =>
              \A k \in 1..Len(response.body.data) :
                  LET block == response.body.data[k]
                  IN  /\ block.type \in {"cube", "rectangular_prism",
                                         "horizontal_rectangular_prism", "pyramid", "cylinder"}
                      /\ \A i \in 1..3 : block.size[i] \in 10..500
                      /\ block.pos[2] * 2 >= block.size[2]
        /\ (\A k \in 1..Len(request.reply.blocks) : request.reply.blocks[k].size = NoField) =>
              response.status # 200

\* C37: the preview image of every variant shown is the rendering of that
\* variant's own build instructions, also after a second generation
C37_PreviewOfOwnBlocks ==
    \A k \in DOMAIN shownVariants :
        shownVariants[k].preview = renderScene(shownVariants[k].buildInstructions)

\* C38: a fix pass keeps the order of the bodies: the body at each position of
\* its output is the body at that position of its input, with the type, size, X
\* and Z it went in with
C38_FixKeepsOrder ==
    agentOp = "fix" =>
        \A k \in 1..Len(agentBlocks) :
            /\ agentBlocks[k].type = agentPrev[k].type
            /\ agentBlocks[k].size = agentPrev[k].size
            /\ agentBlocks[k].pos[1] = agentPrev[k].pos[1]
            /\ agentBlocks[k].pos[3] = agentPrev[k].pos[3]

\* C39: clearVectors leaves the force-vector manager idle, whatever state it is
\* called in: no vectors, no active vector, no temporary arrow, not adjusting an
\* arrow and not waiting for a click
C39_IdleAfterClear ==
    [][ClearVector =>
          /\ fvVectors' = <<>>
          /\ activeVector' = None
          /\ tempArrow' = None
          /\ ~isPlacingVector'
          /\ ~isWaitingForClick']_vars

====
